---- MODULE Spec2Model ----
(***************************************************************************)
(* Model of the sales-assistant backend: the question-matching service     *)
(* (src/src/services/salesQAService.js) and the /pipeline request handler  *)
(* (src/src/routes/voice.js).                                              *)
(*                                                                         *)
(* Strings are TLA+ strings read character by character (SubSeq(s,i,i)).   *)
(* Similarity scores are exact rationals, kept as integers in units of      *)
(* 1/Scale; the JavaScript source computes them in binary floating point.  *)
(***************************************************************************)
EXTENDS Integers, Sequences, FiniteSets, TLC

VARIABLES
    mode,       \* which part of the program this behaviour exercises
    str1,       \* calculateSimilarity: first argument
    str2,       \* calculateSimilarity: second argument
    score12,    \* calculateSimilarity(str1, str2), or Pending
    score21,    \* calculateSimilarity(str2, str1), or Pending
    userInput,  \* parseMultipleQuestions: the argument
    parsed,     \* parseMultipleQuestions has returned
    questions,  \* parseMultipleQuestions: the list returned
    cache,      \* SalesQAService.cache: entries in insertion order
    now,        \* Date.now(), in clock steps of TickMs milliseconds
    calls,      \* the findMatchingQuestion calls in flight or returned
    request,    \* the POST /pipeline request in flight or answered
    lookup,     \* the last getCachedResult call made on the service directly
    extract,    \* the TTS section applied to one responseText
    candidate   \* one stored question under the acceptance rules of the tiers

scorerVars == <<str1, str2, score12, score21>>

splitterVars == <<userInput, parsed, questions>>

matcherVars == <<cache, now, calls>>

unitVars == <<lookup, extract, candidate>>

vars == <<mode, scorerVars, splitterVars, matcherVars, request, unitVars>>

\* a score that has not been computed yet
Pending == 0 - 1

ScorerIdle == str1 = "" /\ str2 = "" /\ score12 = Pending /\ score21 = Pending

SplitterIdle == userInput = "" /\ parsed = FALSE /\ questions = <<>>

(***************************************************************************)
(* Characters and strings                                                  *)
(***************************************************************************)
Char(s, i) == SubSeq(s, i, i)

UpperToLower ==
    [c \in {"A","B","C","D","E","F","G","H","I","J","K","L","M",
            "N","O","P","Q","R","S","T","U","V","W","X","Y","Z"} |->
        CASE c = "A" -> "a" [] c = "B" -> "b" [] c = "C" -> "c" [] c = "D" -> "d"
          [] c = "E" -> "e" [] c = "F" -> "f" [] c = "G" -> "g" [] c = "H" -> "h"
          [] c = "I" -> "i" [] c = "J" -> "j" [] c = "K" -> "k" [] c = "L" -> "l"
          [] c = "M" -> "m" [] c = "N" -> "n" [] c = "O" -> "o" [] c = "P" -> "p"
          [] c = "Q" -> "q" [] c = "R" -> "r" [] c = "S" -> "s" [] c = "T" -> "t"
          [] c = "U" -> "u" [] c = "V" -> "v" [] c = "W" -> "w" [] c = "X" -> "x"
          [] c = "Y" -> "y" [] c = "Z" -> "z"]

IsUpper(c) == c \in DOMAIN UpperToLower

IsLower(c) == c \in {UpperToLower[u] : u \in DOMAIN UpperToLower}

IsDigit(c) == c \in {"0","1","2","3","4","5","6","7","8","9"}

\* \w of a JavaScript regular expression
IsWordChar(c) == IsUpper(c) \/ IsLower(c) \/ IsDigit(c) \/ c = "_"

\* \s of a JavaScript regular expression (the characters the model uses)
IsSpace(c) == c \in {" ", "\n", "\t", "\r"}

LowerChar(c) == IF IsUpper(c) THEN UpperToLower[c] ELSE c

MinOf(S) == CHOOSE x \in S : \A y \in S : x <= y

MaxOf(S) == CHOOSE x \in S : \A y \in S : x >= y

\* String.prototype.toLowerCase, on the characters lo..hi of s
RECURSIVE lowerRange(_, _, _)
lowerRange(s, lo, hi) ==
    IF lo > hi THEN ""
    ELSE IF lo = hi THEN LowerChar(Char(s, lo))
    ELSE LET mid == (lo + hi) \div 2
         IN lowerRange(s, lo, mid) \o lowerRange(s, mid + 1, hi)

toLowerCase(s) == lowerRange(s, 1, Len(s))

\* true when pat occurs in s starting at position i
MatchAt(s, i, pat) ==
    /\ i >= 1
    /\ i + Len(pat) - 1 <= Len(s)
    /\ SubSeq(s, i, i + Len(pat) - 1) = pat

\* String.prototype.includes
includes(s, pat) == \E i \in 1..(Len(s) + 1) : MatchAt(s, i, pat)

\* String.prototype.indexOf, 1-based; 0 when pat does not occur
indexOf(s, pat) ==
    LET at == {i \in 1..(Len(s) + 1) : MatchAt(s, i, pat)}
    IN IF at = {} THEN 0 ELSE MinOf(at)

\* String.prototype.trim
trim(s) ==
    LET kept == {i \in 1..Len(s) : ~IsSpace(Char(s, i))}
    IN IF kept = {} THEN "" ELSE SubSeq(s, MinOf(kept), MaxOf(kept))

\* the k-th smallest element of a set of numbers
Nth(S, k) == CHOOSE p \in S : Cardinality({q \in S : q <= p}) = k

\* s.split(' '): the pieces between single space characters, empty pieces kept
splitSpace(s) ==
    LET spaces == {i \in 1..Len(s) : Char(s, i) = " "}
        n == Cardinality(spaces)
    IN [k \in 1..(n + 1) |->
            SubSeq(s, IF k = 1 THEN 1 ELSE Nth(spaces, k - 1) + 1,
                      IF k = n + 1 THEN Len(s) ELSE Nth(spaces, k) - 1)]

\* a \b assertion holds between positions i-1 and i of s
WordBoundary(s, i) ==
    LET before == i > 1 /\ i - 1 <= Len(s) /\ IsWordChar(Char(s, i - 1))
        after  == i >= 1 /\ i <= Len(s) /\ IsWordChar(Char(s, i))
    IN before # after

\* /\bword\b/ matches at position i of s
WordAt(s, i, word) ==
    MatchAt(s, i, word) /\ WordBoundary(s, i) /\ WordBoundary(s, i + Len(word))

\* the matches a global replace takes: leftmost first, never overlapping
RECURSIVE takeMatches(_, _, _)
takeMatches(starts, len, from) ==
    LET left == {i \in starts : i >= from}
    IN IF left = {} THEN {}
       ELSE {MinOf(left)} \cup takeMatches(starts, len, MinOf(left) + len)

RECURSIVE replaceRange(_, _, _, _, _, _)
replaceRange(s, taken, len, to, lo, hi) ==
    IF lo > hi THEN ""
    ELSE IF lo = hi
         THEN (IF lo \in taken THEN to
               ELSE IF \E j \in taken : j < lo /\ lo < j + len THEN ""
               ELSE Char(s, lo))
    ELSE LET mid == (lo + hi) \div 2
         IN replaceRange(s, taken, len, to, lo, mid)
                \o replaceRange(s, taken, len, to, mid + 1, hi)

\* s.replace(/\bword\b/g, to) for a literal word
replaceWord(s, word, to) ==
    LET starts == {i \in 1..Len(s) : WordAt(s, i, word)}
    IN IF starts = {} THEN s
       ELSE replaceRange(s, takeMatches(starts, Len(word), 1), Len(word), to, 1, Len(s))

Range(seq) == {seq[i] : i \in 1..Len(seq)}

Min(a, b) == IF a < b THEN a ELSE b

(***************************************************************************)
(* Similarity scorer                                                       *)
(***************************************************************************)
\* one unit of similarity is 1/Scale; Scale is divisible by 10 and by every
\* union size up to 16, so every score of the model is an exact integer
Scale == 16 * 9 * 5 * 7 * 11 * 13

Tenths(n) == (n * Scale) \div 10

commonWords ==
    { "the", "a", "an", "and", "or", "but", "in", "on", "at", "to", "for", "of", "with", "by",
      "is", "are", "was", "were", "be", "been", "have", "has", "had", "do", "does", "did",
      "will", "would", "could", "should", "may", "might", "can", "you", "i", "me", "my",
      "we", "us", "our", "they", "them", "their", "this", "that", "these", "those",
      "hello", "hi", "how", "listening", "talking", "please", "thank", "thanks",
      "yes", "no", "ok", "okay", "sure", "alright", "good", "bad", "great", "nice",
      "very", "really", "quite", "just", "only", "also", "too", "so", "then", "now",
      "here", "there", "where", "when", "why", "what", "who", "which", "whose" }

isCommonWord(word) == toLowerCase(word) \in commonWords

\* the surface-form unifications applied to each argument before tokenizing
unifyForms(s) ==
    replaceWord(replaceWord(replaceWord(replaceWord(toLowerCase(s),
        "competitors", "competitor"),
        "competitor's", "competitor"),
        "matching", "match"),
        "offers", "offer")

meaningfulWords(s) ==
    SelectSeq(splitSpace(unifyForms(s)), LAMBDA w : Len(w) > 2 /\ ~isCommonWord(w))

\* the filter inverted: the words of words1 that words2 lacks
intersectionOf_inverted(words1, words2) == SelectSeq(words1, LAMBDA w : w \notin Range(words2))

\* words1.filter(word => words2.includes(word)): a list, duplicates kept
intersectionOf(words1, words2) == SelectSeq(words1, LAMBDA w : w \in Range(words2))

orderBonusOf(words1, words2) ==
    LET minLength == Min(Len(words1), Len(words2))
    IN Tenths(Cardinality({i \in 1..Min(minLength, 5) : words1[i] = words2[i]}))

containsEitherWay(a, b) ==
    LET aLower == toLowerCase(a)
        bLower == toLowerCase(b)
    IN includes(aLower, bLower) \/ includes(bLower, aLower)

\* the score once the Jaccard ratio is known
boostedScore(jaccardSimilarity, orderBonus, contained) ==
    IF jaccardSimilarity > Tenths(8)
    THEN Min(Scale, jaccardSimilarity + Tenths(1))
    ELSE Min(Scale, jaccardSimilarity + orderBonus + (IF contained THEN Tenths(2) ELSE 0))

\* the score of two token lists with their shared tokens
scoreOverlap(words1, words2, intersection, contained) ==
    IF Len(words1) = 0 \/ Len(words2) = 0 THEN 0
    ELSE IF Len(intersection) = 0 THEN (IF contained THEN Tenths(3) ELSE 0)
    ELSE boostedScore((Len(intersection) * Scale)
                          \div Cardinality(Range(words1) \cup Range(words2)),
                      orderBonusOf(words1, words2), contained)

scoreTokens(a, b, words1, words2) ==
    scoreOverlap(words1, words2, intersectionOf(words1, words2), containsEitherWay(a, b))

\* the sum of the Jaccard ratio and the bonuses without the final Math.min(1, ...)
uncappedSum(words1, words2, intersection, contained) ==
    IF Len(words1) = 0 \/ Len(words2) = 0 THEN 0
    ELSE ((Len(intersection) * Scale) \div Cardinality(Range(words1) \cup Range(words2)))
            + orderBonusOf(words1, words2) + (IF contained THEN Tenths(2) ELSE 0)

\* the scorer without the cap and without the length-ratio return
calculateSimilarity_uncapped(a, b) ==
    IF Len(a) = 0 \/ Len(b) = 0 THEN 0
    ELSE uncappedSum(meaningfulWords(a), meaningfulWords(b),
                     intersectionOf(meaningfulWords(a), meaningfulWords(b)),
                     containsEitherWay(a, b))

calculateSimilarity(a, b) ==
    IF Len(a) = 0 \/ Len(b) = 0 THEN 0
    ELSE IF Min(Len(a), Len(b)) * 10 < 3 * (IF Len(a) > Len(b) THEN Len(a) ELSE Len(b)) THEN 0
    ELSE scoreTokens(a, b, meaningfulWords(a), meaningfulWords(b))

(***************************************************************************)
(* Multi-question splitter                                                 *)
(***************************************************************************)
\* number of consecutive whitespace characters of s starting at position i
spaceRun(s, i) ==
    IF i < 1 \/ i > Len(s) THEN 0
    ELSE LET stops == {j \in i..Len(s) : ~IsSpace(Char(s, j))}
         IN IF stops = {} THEN Len(s) - i + 1 ELSE MinOf(stops) - i

IsLetterAt(s, i) == i >= 1 /\ i <= Len(s) /\ (IsUpper(Char(s, i)) \/ IsLower(Char(s, i)))

IsUpperAt(s, i) == i >= 1 /\ i <= Len(s) /\ IsUpper(Char(s, i))

\* s continues at position i with the given word, letter case ignored
MatchAtIgnoreCase(s, i, word) ==
    /\ i >= 1
    /\ i + Len(word) - 1 <= Len(s)
    /\ toLowerCase(SubSeq(s, i, i + Len(word) - 1)) = word

separatorQuestionWords ==
    <<"why", "what", "how", "when", "where", "who", "can", "do", "will", "would", "should">>

NumSeparators == 6

\* length of the match of separator k that starts at position i of s, 0 if none
separatorMatch(k, s, i) ==
    LET afterMark == spaceRun(s, i + 1)
        afterWord == spaceRun(s, i + 4)
    IN CASE k = 1 ->
              IF MatchAt(s, i, "?") /\ afterMark >= 1 /\ IsUpperAt(s, i + 1 + afterMark)
              THEN 1 + afterMark ELSE 0
         [] k = 2 ->
              IF MatchAt(s, i, ".") /\ afterMark >= 1 /\ IsUpperAt(s, i + 1 + afterMark)
              THEN 1 + afterMark ELSE 0
         [] k = 3 ->
              IF /\ spaceRun(s, i) >= 1 /\ MatchAtIgnoreCase(s, i + 1, "and")
                 /\ afterWord >= 1 /\ IsLetterAt(s, i + 4 + afterWord)
              THEN 4 + afterWord ELSE 0
         [] k = 4 ->
              IF /\ spaceRun(s, i) >= 1 /\ MatchAtIgnoreCase(s, i + 1, "aur")
                 /\ afterWord >= 1 /\ IsLetterAt(s, i + 4 + afterWord)
              THEN 4 + afterWord ELSE 0
         [] k = 5 ->
              IF MatchAt(s, i, ";") /\ afterMark >= 1 THEN 1 + afterMark ELSE 0
         [] OTHER ->
              IF /\ spaceRun(s, i) >= 1 /\ MatchAtIgnoreCase(s, i + 1, "and")
                 /\ afterWord >= 1
                 /\ \E w \in Range(separatorQuestionWords) :
                        MatchAtIgnoreCase(s, i + 4 + afterWord, w)
              THEN 4 + afterWord ELSE 0

\* the separator matches a split takes: leftmost first, never overlapping
RECURSIVE takeSeparators(_, _, _)
takeSeparators(k, s, from) ==
    LET left == {i \in from..Len(s) : separatorMatch(k, s, i) > 0}
    IN IF left = {} THEN {}
       ELSE {MinOf(left)}
                \cup takeSeparators(k, s, MinOf(left) + separatorMatch(k, s, MinOf(left)))

\* currentInput.split(separator)
splitBySeparator(k, s) ==
    LET taken == takeSeparators(k, s, 1)
        n == Cardinality(taken)
    IN [j \in 1..(n + 1) |->
            SubSeq(s,
                   IF j = 1 THEN 1
                   ELSE Nth(taken, j - 1) + separatorMatch(k, s, Nth(taken, j - 1)),
                   IF j = n + 1 THEN Len(s) ELSE Nth(taken, j) - 1)]

isMeaningfulPart(part) ==
    LET trimmed == trim(part)
    IN Len(trimmed) > 10 /\ (includes(trimmed, "?") \/ Len(trimmed) > 20)

validParts(k, s) == SelectSeq(splitBySeparator(k, s), isMeaningfulPart)

separatorSucceeds(k, s) == Len(splitBySeparator(k, s)) > 1 /\ Len(validParts(k, s)) > 1

questionWords ==
    <<"what", "how", "why", "when", "where", "who", "can", "do", "will", "would", "should",
      "kya", "kaise", "kyun", "kab", "kahan", "kaun">>

\* (input.match(/\bword\b/gi) || []).length
countWord(s, word) ==
    Cardinality({i \in 1..Len(s) :
        /\ MatchAtIgnoreCase(s, i, word)
        /\ WordBoundary(s, i)
        /\ WordBoundary(s, i + Len(word))})

RECURSIVE sumCounts(_, _)
sumCounts(s, n) ==
    IF n = 0 THEN 0 ELSE countWord(s, questionWords[n]) + sumCounts(s, n - 1)

questionCount(s) == sumCounts(s, Len(questionWords))

IsTerminator(c) == c \in {".", "!", "?"}

\* position of the first sentence terminator of s at or after i, Len(s) if none
questionEnd(s, i) ==
    LET ends == {j \in i..Len(s) : IsTerminator(Char(s, j))}
    IN IF ends = {} THEN Len(s) ELSE MinOf(ends)

\* input.match(completeQuestionPattern): the matches from position i on
RECURSIVE completeQuestionsFrom(_, _)
completeQuestionsFrom(s, i) ==
    LET starts == {j \in i..Len(s) : \E w \in Range(questionWords) : MatchAtIgnoreCase(s, j, w)}
    IN IF starts = {} THEN <<>>
       ELSE LET b == MinOf(starts)
                e == questionEnd(s, b)
            IN <<SubSeq(s, b, e)>> \o completeQuestionsFrom(s, e + 1)

isCompleteQuestion(m) ==
    LET trimmed == trim(m)
    IN (Len(trimmed) > 15 /\ Char(trimmed, Len(trimmed)) = "?") \/ Len(trimmed) > 20

RECURSIVE trimAll(_)
trimAll(seq) == IF Len(seq) = 0 THEN <<>> ELSE <<trim(Head(seq))>> \o trimAll(Tail(seq))

questionWordSplit(input) ==
    IF questionCount(input) > 1
    THEN LET matches == completeQuestionsFrom(input, 1)
         IN IF Len(matches) > 1
            THEN trimAll(SelectSeq(matches, isCompleteQuestion))
            ELSE <<>>
    ELSE <<>>

\* the part of parseMultipleQuestions after the short-input return
splitLongInput(input) ==
    LET succeeding == {k \in 1..NumSeparators : separatorSucceeds(k, input)}
        found ==
            IF succeeding # {}
            THEN validParts(CHOOSE k \in succeeding : \A j \in succeeding : k <= j, input)
            ELSE questionWordSplit(input)
    IN IF Len(found) = 0 THEN <<input>> ELSE found

ShortInputLimit == 30

\* the splitter without the short-input return
parseMultipleQuestions_alwaysSplit(text) ==
    IF text = "" THEN <<text>> ELSE splitLongInput(trim(text))

parseMultipleQuestions(text) ==
    IF text = "" THEN <<text>>
    ELSE LET input == trim(text)
         IN IF Len(input) < ShortInputLimit THEN <<input>> ELSE splitLongInput(input)

(***************************************************************************)
(* Query normalizer and casual-utterance filter                            *)
(***************************************************************************)
IsPunctuation(c) == c \in {".", ",", "!", "?", ";", ":"}

\* s.replace(/[.,!?;:]/g, ''), on the characters lo..hi of s
RECURSIVE removePunctuationRange(_, _, _)
removePunctuationRange(s, lo, hi) ==
    IF lo > hi THEN ""
    ELSE IF lo = hi THEN (IF IsPunctuation(Char(s, lo)) THEN "" ELSE Char(s, lo))
    ELSE LET mid == (lo + hi) \div 2
         IN removePunctuationRange(s, lo, mid) \o removePunctuationRange(s, mid + 1, hi)

removePunctuation(s) == removePunctuationRange(s, 1, Len(s))

\* s.replace(/\s+/g, ' '), on the characters lo..hi of s
RECURSIVE collapseSpacesRange(_, _, _)
collapseSpacesRange(s, lo, hi) ==
    IF lo > hi THEN ""
    ELSE IF lo = hi
         THEN (IF ~IsSpace(Char(s, lo)) THEN Char(s, lo)
               ELSE IF lo > 1 /\ IsSpace(Char(s, lo - 1)) THEN ""
               ELSE " ")
    ELSE LET mid == (lo + hi) \div 2
         IN collapseSpacesRange(s, lo, mid) \o collapseSpacesRange(s, mid + 1, hi)

collapseSpaces(s) == collapseSpacesRange(s, 1, Len(s))

\* the replacements of normalizeQuery, in source order; whitespace has been
\* collapsed before they run, so \s* is "" or " " and \s+ is " "
normalizeRules ==
    << <<"pre sales", "pre-sales">>, <<"presales", "pre-sales">>,
       <<"post sales", "post-sales">>, <<"postsales", "post-sales">>,
       <<"co founder", "co-founder">>, <<"cofounder", "co-founder">>,
       <<"what happened", "what happens">>,
       <<"what will happen", "what happens">>,
       <<"what would happen", "what happens">>,
       <<"tell me about sale", "about sales">>,
       <<"tell me about sales", "about sales">> >>

RECURSIVE applyRules(_, _, _)
applyRules(s, rules, n) ==
    IF n > Len(rules) THEN s
    ELSE applyRules(replaceWord(s, rules[n][1], rules[n][2]), rules, n + 1)

\* normalization that skips the tense and compound-word replacements
\* the chain of replacements of normalizeQuery
normalizeChain(query) ==
    trim(applyRules(collapseSpaces(removePunctuation(trim(toLowerCase(query)))),
                    normalizeRules, 1))

\* the questions the routes pass to the matcher
Queries ==
    {"Hi, how are you?", "your price", "Which price plan is best",
     "Which price plan is the best one?", "Is there a free trial?", "price best"}

normalizeOver(inputs) == [q \in inputs |-> normalizeChain(q)]

\* normalizeChain of the questions and of their clean forms, computed once
normalizeQueryTable ==
    normalizeOver(Queries \cup {""} \cup {normalizeChain(q) : q \in Queries})

normalizeQuery(query) == normalizeQueryTable[query]

\* s continues at position i with the words, separated by whitespace runs
RECURSIVE PhraseAt(_, _, _)
PhraseAt(s, i, words) ==
    /\ MatchAtIgnoreCase(s, i, Head(words))
    /\ \/ Len(words) = 1
       \/ LET j == i + Len(Head(words))
              run == spaceRun(s, j)
          IN run >= 1 /\ PhraseAt(s, j + run, Tail(words))

chatPhrases == { <<"how", "are", "you">>, <<"are", "you", "listening">>,
                 <<"are", "you", "talking">> }

casualPatterns ==
    {<<g>> \o p : g \in {"hello", "hi", "hey"}, p \in chatPhrases}
        \cup chatPhrases
        \cup { <<"good", "morning">>, <<"good", "afternoon">>, <<"good", "evening">> }
        \cup { <<"thank", "you">>, <<"thanks">>, <<"bye">>, <<"goodbye">> }
        \cup { <<"yes">>, <<"no">>, <<"ok">>, <<"okay">>, <<"sure">>, <<"alright">> }

isCasualConversation(query) == \E p \in casualPatterns : PhraseAt(query, 1, p)

(***************************************************************************)
(* Corpus and match results                                                *)
(***************************************************************************)
\* a field that a JavaScript object does not carry
Undefined == 0 - 1

\* the absence of a match (null)
Null == [question |-> "", answers |-> <<>>, category |-> "", description |-> "",
         similarity |-> Undefined]

BasicCategory == "Basic Sales Questions"

\* the question records of the store
Corpus ==
    << [category |-> BasicCategory, description |-> "basics",
        questions |-> << [question |-> "What is your price?",
                          answers |-> <<"a1", "b1", "c1">>],
                         [question |-> "Is there a free trial",
                          answers |-> <<"a3", "b3", "c3">>] >>],
       [category |-> "Pricing", description |-> "plans",
        questions |-> << [question |-> "Which price plan is best?",
                          answers |-> <<"a2", "b2", "c2">>] >>] >>

\* the (record, question) pairs of a list of records, in scan order
RECURSIVE candidatesOf(_)
candidatesOf(records) ==
    IF Len(records) = 0 THEN <<>>
    ELSE LET r == Head(records)
         IN [i \in 1..Len(r.questions) |->
                [question |-> r.questions[i].question, answers |-> r.questions[i].answers,
                 category |-> r.category, description |-> r.description]]
            \o candidatesOf(Tail(records))

Take(seq, n) == SubSeq(seq, 1, Min(n, Len(seq)))

scoreOf(best) == IF best = Null THEN 0 ELSE best.similarity

longWords(s) == SelectSeq(splitSpace(s), LAMBDA w : Len(w) > 2)

\* queryWords.filter(word => questionWords.includes(word)).length
exactWordMatches(query, questionText) ==
    LET queryWords == longWords(toLowerCase(query))
        wordsOfQuestion == longWords(toLowerCase(questionText))
    IN Len(SelectSeq(queryWords, LAMBDA w : w \in Range(wordsOfQuestion)))

thresholdFor_none(tier, query, cand) == 0

\* acceptance threshold of a tier for one candidate
thresholdFor(tier, query, cand) ==
    CASE tier = "partial" ->
            LET base == IF cand.category = BasicCategory THEN Tenths(2) ELSE Tenths(6)
            IN IF exactWordMatches(query, cand.question) >= 3 THEN Min(base, Tenths(4))
               ELSE base
      [] tier = "text" ->
            IF exactWordMatches(query, toLowerCase(cand.question)) >= 3 THEN Tenths(4)
            ELSE Tenths(6)
      [] OTHER -> (15 * Scale) \div 100

\* score above which a tier returns a candidate at once
earlyExitFor(tier) == IF tier = "regex" THEN Tenths(5) ELSE Tenths(7)

matchOf(cand, sim) ==
    [question |-> cand.question, answers |-> cand.answers, category |-> cand.category,
     description |-> cand.description, similarity |-> sim]

\* the text of a candidate as the tier hands it to the scorer
candidateText(tier, cand) ==
    IF tier = "partial" THEN cand.question ELSE toLowerCase(cand.question)

\* the scoring loop of a tier over its candidates, from candidate i on
RECURSIVE scanCandidates(_, _, _, _, _)
\* the body of the loop for candidate i, scored sim against its threshold
scoreCandidate(tier, query, cands, i, best, sim, threshold) ==
    IF sim > scoreOf(best) /\ sim > threshold
    THEN IF sim > earlyExitFor(tier)
         THEN [best |-> matchOf(cands[i], sim), returned |-> TRUE]
         ELSE scanCandidates(tier, query, cands, i + 1, matchOf(cands[i], sim))
    ELSE scanCandidates(tier, query, cands, i + 1, best)

scanCandidates(tier, query, cands, i, best) ==
    IF i > Len(cands) THEN [best |-> best, returned |-> FALSE]
    ELSE scoreCandidate(tier, query, cands, i, best,
                        calculateSimilarity(query, candidateText(tier, cands[i])),
                        thresholdFor(tier, query, cands[i]))

(***************************************************************************)
(* Exact tier: exactMatch                                                  *)
(***************************************************************************)
RECURSIVE replaceCharRange(_, _, _, _, _)
replaceCharRange(s, from, to, lo, hi) ==
    IF lo > hi THEN ""
    ELSE IF lo = hi THEN (IF Char(s, lo) = from THEN to ELSE Char(s, lo))
    ELSE LET mid == (lo + hi) \div 2
         IN replaceCharRange(s, from, to, lo, mid)
                \o replaceCharRange(s, from, to, mid + 1, hi)

\* the word replacements that build searchVariations, one variation each; the
\* query is lower case with its whitespace collapsed when exactMatch runs
exactRules ==
    << <<"pre sales", "pre-sales">>, <<"presales", "pre-sales">>,
       <<"post sales", "post-sales">>, <<"postsales", "post-sales">>,
       <<"what happened", "what happens">>,
       <<"what will happen", "what happens">>,
       <<"what would happen", "what happens">>,
       <<"tell me about sale", "about sales">>,
       <<"tell me about sales", "about sales">>,
       <<"competitors", "competitor">>, <<"competitor's", "competitor">>,
       <<"competitors'", "competitor">>, <<"competitors", "competitor's">>,
       <<"competitor", "competitor's">>,
       <<"do you", "can you">>, <<"will you", "can you">>,
       <<"matching", "match">>, <<"beat", "match">>, <<"compete", "match">> >>

\* query.replace(/\s+/g, '-')
hyphenate(collapsed) == replaceCharRange(collapsed, " ", "-", 1, Len(collapsed))

exactVariations(query) ==
    {query, normalizeQuery(query), hyphenate(collapseSpaces(query)),
     replaceCharRange(query, "-", " ", 1, Len(query))}
        \cup {replaceWord(query, exactRules[n][1], exactRules[n][2]) :
                n \in 1..Len(exactRules)}

\* the alternations written into a variation before it is escaped
flexibleVariation(variation) ==
    replaceWord(
      replaceWord(
        replaceWord(
          replaceWord(variation, "competitors", "(competitors?|competitor's?)"),
          "competitor", "(competitor|competitors?)"),
        "match", "(match|matching)"),
      "offer", "(offer|offers)")

\* new RegExp(`^${escapeRegex(flexibleVariation)}$`, 'i').test(text): every
\* metacharacter is escaped, so the pattern matches its own text only
matchesExactly(query, text) ==
    \E v \in exactVariations(query) :
        toLowerCase(flexibleVariation(v)) = toLowerCase(text)

\* the first matching question of the first record that has one
firstHit(hits) ==
    CHOOSE h \in hits :
        \A g \in hits : h[1] < g[1] \/ (h[1] = g[1] /\ h[2] <= g[2])

exactResult(r, i) ==
    [question |-> Corpus[r].questions[i].question,
     answers |-> Corpus[r].questions[i].answers,
     category |-> Corpus[r].category, description |-> Corpus[r].description,
     similarity |-> Undefined]

exactAmong(hits) ==
    IF hits = {} THEN Null ELSE exactResult(firstHit(hits)[1], firstHit(hits)[2])

\* the value exactMatch returns: it carries no similarity
exactMatchOf(query) ==
    exactAmong({h \in UNION {{<<r, i>> : i \in 1..Len(Corpus[r].questions)} :
                                r \in 1..Len(Corpus)} :
                    matchesExactly(query, Corpus[h[1]].questions[h[2]].question)})

\* the clean forms of the questions the routes pass
CleanQueries == {normalizeQuery(q) : q \in Queries}

\* exactMatchOf on the clean queries, computed once
exactMatchTable == [q \in CleanQueries |-> exactMatchOf(q)]

exactMatch(query) == exactMatchTable[query]

(***************************************************************************)
(* Partial tier                                                            *)
(***************************************************************************)
\* the regular expression w1.*w2.*... (letter case ignored) matches text
RECURSIVE wordsInOrder(_, _, _)
wordsInOrder(text, from, words) ==
    IF Len(words) = 0 THEN TRUE
    ELSE LET at == {i \in from..Len(text) : MatchAtIgnoreCase(text, i, toLowerCase(Head(words)))}
         IN at # {} /\ wordsInOrder(text, MinOf(at) + Len(Head(words)), Tail(words))

\* SalesQA.find({"questions.question": {$regex: pattern}}).limit(limit)
findByPattern(words, limit) ==
    Take(SelectSeq(Corpus, LAMBDA r :
            \E i \in 1..Len(r.questions) : wordsInOrder(r.questions[i].question, 1, words)),
         limit)

searchPatterns(query) ==
    LET words == longWords(query)
    IN << SelectSeq(words, LAMBDA w : ~isCommonWord(w)),
          longWords(normalizeQuery(query)),
          words >>

\* the loop of partialMatch over its search patterns, from pattern n on
RECURSIVE partialFrom(_, _, _)
\* the end of the loop body for pattern n
afterPattern(query, n, scan) ==
    IF scan.returned THEN scan.best
    ELSE IF scoreOf(scan.best) > Tenths(5) THEN scan.best
    ELSE partialFrom(query, n + 1, scan.best)

partialFrom(query, n, best) ==
    IF n > 3 THEN best
    ELSE afterPattern(query, n,
            scanCandidates("partial", query,
                candidatesOf(findByPattern(searchPatterns(query)[n], 10)), 1, best))

\* the value partialMatch returns
partialMatchOf(query) ==
    IF Len(longWords(query)) = 0 THEN Null ELSE partialFrom(query, 1, Null)

\* partialMatchOf on the clean queries, computed once
partialMatchTable == [q \in CleanQueries |-> partialMatchOf(q)]

partialMatch(query) == partialMatchTable[query]

(***************************************************************************)
(* Indexed text tier                                                       *)
(***************************************************************************)
\* getSynonyms(word)[0] for every word that has synonyms
firstSynonym ==
    [w \in {"different", "free", "solution", "make", "you", "what", "from", "risk",
            "career", "choosing", "should", "writing", "send", "everything",
            "information", "document", "written", "talk", "online", "checking",
            "instead", "me", "can", "competitor", "competitors", "match", "offer",
            "sale", "sales", "selling", "sell", "process", "customer", "client",
            "buyer", "product", "service", "price", "cost", "value", "benefit",
            "training", "skill", "technique", "strategy", "goal", "target", "result",
            "success", "help", "assist", "support"} |->
        CASE w = "different" -> "unique" [] w = "free" -> "complimentary"
          [] w = "solution" -> "solutions" [] w = "make" -> "makes"
          [] w = "you" -> "your" [] w = "what" -> "how" [] w = "from" -> "than"
          [] w = "risk" -> "risks" [] w = "career" -> "careers"
          [] w = "choosing" -> "choose" [] w = "should" -> "shall"
          [] w = "writing" -> "written" [] w = "send" -> "sending"
          [] w = "everything" -> "all" [] w = "information" -> "info"
          [] w = "document" -> "documents" [] w = "written" -> "writing"
          [] w = "talk" -> "speak" [] w = "online" -> "internet"
          [] w = "checking" -> "check" [] w = "instead" -> "rather"
          [] w = "me" -> "my" [] w = "can" -> "could"
          [] w = "competitor" -> "competitors" [] w = "competitors" -> "competitor"
          [] w = "match" -> "matches" [] w = "offer" -> "offers"
          [] w = "sale" -> "sales" [] w = "sales" -> "sale" [] w = "selling" -> "sale"
          [] w = "sell" -> "sale" [] w = "process" -> "procedure"
          [] w = "customer" -> "client" [] w = "client" -> "customer"
          [] w = "buyer" -> "customer" [] w = "product" -> "products"
          [] w = "service" -> "services" [] w = "price" -> "pricing"
          [] w = "cost" -> "price" [] w = "value" -> "worth" [] w = "benefit" -> "value"
          [] w = "training" -> "education" [] w = "skill" -> "skills"
          [] w = "technique" -> "techniques" [] w = "strategy" -> "strategies"
          [] w = "goal" -> "goals" [] w = "target" -> "targets"
          [] w = "result" -> "results" [] w = "success" -> "successful"
          [] w = "help" -> "helps" [] w = "assist" -> "help" [] w = "support" -> "help"]

\* words.join(' ')
RECURSIVE joinSpace(_)
joinSpace(words) ==
    IF Len(words) = 0 THEN ""
    ELSE IF Len(words) = 1 THEN Head(words)
    ELSE Head(words) \o " " \o joinSpace(Tail(words))

replaceWithSynonyms(query) ==
    LET words == splitSpace(query)
    IN joinSpace([i \in 1..Len(words) |->
            IF toLowerCase(words[i]) \in DOMAIN firstSynonym
            THEN firstSynonym[toLowerCase(words[i])] ELSE words[i]])

searchVariations(query) ==
    << query,
       joinSpace(SelectSeq(splitSpace(query), LAMBDA w : ~isCommonWord(w) /\ Len(w) > 2)),
       replaceWithSynonyms(query) >>

\* the regex scan textSearch falls back to: records with a question that
\* contains searchQuery, at most 3
findContaining(searchQuery) ==
    Take(SelectSeq(Corpus, LAMBDA r :
            \E i \in 1..Len(r.questions) :
                includes(toLowerCase(r.questions[i].question), toLowerCase(searchQuery))),
         3)

\* searchVariations of the clean queries, and findContaining of their
\* variations, computed once
searchVariationsTable == [q \in CleanQueries |-> searchVariations(q)]

findContainingTable ==
    [searchQuery \in UNION {Range(searchVariationsTable[q]) : q \in CleanQueries} |->
        findContaining(searchQuery)]

\* what the store can answer to a $text search: an error, or the records it
\* ranks first
TextAnswers ==
    {[failed |-> TRUE, records |-> <<>>]} \cup
    {[failed |-> FALSE, records |-> found] :
        found \in {<<>>, <<Corpus[1]>>, <<Corpus[2]>>, <<Corpus[1], Corpus[2]>>,
                   <<Corpus[2], Corpus[1]>>}}

(***************************************************************************)
(* Result cache                                                            *)
(***************************************************************************)
cacheMaxSize == 100

cacheTimeout == 5 * 60 * 1000

\* milliseconds per clock step of the model
TickMs == 300 * 1000

cacheKeys(c) == {c[i].key : i \in 1..Len(c)}

cacheEntry(c, key) == c[CHOOSE i \in 1..Len(c) : c[i].key = key]

\* Map.prototype.delete
cacheDelete(c, key) == SelectSeq(c, LAMBDA e : e.key # key)

cachedUnder_atTimeout(c, cacheKey, clock) ==
    IF cacheKey \in cacheKeys(c)
          /\ clock - cacheEntry(c, cacheKey).timestamp <= cacheTimeout
    THEN cacheEntry(c, cacheKey).result
    ELSE Null

\* getCachedResult once the key is known
cachedUnder(c, cacheKey, clock) ==
    IF cacheKey \in cacheKeys(c)
          /\ clock - cacheEntry(c, cacheKey).timestamp < cacheTimeout
    THEN cacheEntry(c, cacheKey).result
    ELSE Null

\* the value getCachedResult returns
getCachedResult(c, query, clock) == cachedUnder(c, normalizeQuery(query), clock)

expireUnder(c, cacheKey, clock) ==
    IF cacheKey \in cacheKeys(c)
          /\ ~(clock - cacheEntry(c, cacheKey).timestamp < cacheTimeout)
    THEN cacheDelete(c, cacheKey)
    ELSE c

\* the cache after getCachedResult: an expired entry is deleted
cacheAfterGet(c, query, clock) == expireUnder(c, normalizeQuery(query), clock)

\* Map.prototype.set: a known key keeps its place
cacheSet(c, entry) ==
    IF entry.key \in cacheKeys(c)
    THEN [i \in 1..Len(c) |-> IF c[i].key = entry.key THEN entry ELSE c[i]]
    ELSE Append(c, entry)

setCachedResult_noEviction(c, query, result, clock) ==
    cacheSet(c, [key |-> normalizeQuery(query), result |-> result, timestamp |-> clock])

\* the cache after setCachedResult
setCachedResult(c, query, result, clock) ==
    cacheSet(IF Len(c) >= cacheMaxSize THEN Tail(c) ELSE c,
             [key |-> normalizeQuery(query), result |-> result, timestamp |-> clock])

\* the cache after clearCache(query)
clearCache(c, query) ==
    IF query # "" THEN cacheDelete(c, normalizeQuery(query)) ELSE <<>>

\* a cached result is trusted whatever its similarity
isTrusted_always(result) == TRUE

\* cachedResult.similarity && cachedResult.similarity >= 0.7
isTrusted(result) ==
    /\ result.similarity # Undefined
    /\ result.similarity # 0
    /\ result.similarity >= Tenths(7)

(***************************************************************************)
(* Tiered matcher: findMatchingQuestion, one action per suspension point   *)
(***************************************************************************)
MaxTicks == 1

\* the callers of findMatchingQuestion that the model follows
Callers == {"request"}

IdleCall ==
    [pc |-> "idle", query |-> "", clean |-> "", force |-> FALSE, seen |-> Null,
     staleDropped |-> FALSE, fromCache |-> FALSE, ret |-> Null, tiers |-> <<>>,
     variation |-> 0, best |-> Null]

Millis(clock) == clock * TickMs

stageAfterCache_skipExact(cleanQuery) ==
    IF isCasualConversation(cleanQuery) THEN "done" ELSE "partial"

\* the stage that follows the cache lookup
stageAfterCache(cleanQuery) ==
    IF isCasualConversation(cleanQuery) THEN "done" ELSE "exact"

\* the call returns what the cache holds
ReturnCached(c, started, cleanQuery, cachedResult, looked) ==
    /\ cache' = looked
    /\ calls' = [calls EXCEPT ![c] =
            [started EXCEPT !.pc = "done", !.clean = cleanQuery, !.seen = cachedResult,
                            !.fromCache = TRUE, !.ret = cachedResult]]

\* the call goes on to the tiers with the cache as kept
GoOn(c, started, cleanQuery, cachedResult, kept) ==
    /\ cache' = kept
    /\ calls' = [calls EXCEPT ![c] =
            [started EXCEPT !.pc = stageAfterCache(cleanQuery), !.clean = cleanQuery,
                            !.seen = cachedResult,
                            !.staleDropped =
                                (cachedResult # Null
                                    /\ normalizeQuery(cleanQuery) \notin cacheKeys(kept))]]

\* findMatchingQuestion from its cache lookup to its first await
LookUp(c, started, cleanQuery, cachedResult, looked) ==
    IF cachedResult # Null /\ isTrusted(cachedResult)
    THEN ReturnCached(c, started, cleanQuery, cachedResult, looked)
    ELSE GoOn(c, started, cleanQuery, cachedResult,
              IF cachedResult # Null THEN clearCache(looked, cleanQuery) ELSE looked)

\* findMatchingQuestion up to its first await, on the cache as the caller left it
BeginFind(c, started, cleared) ==
    IF started.query = ""
    THEN /\ cache' = cleared
         /\ calls' = [calls EXCEPT ![c] = [started EXCEPT !.pc = "done"]]
    ELSE \E cleanQuery \in {normalizeQuery(started.query)} :
            LookUp(c, started, cleanQuery,
                   getCachedResult(cleared, cleanQuery, Millis(now)),
                   cacheAfterGet(cleared, cleanQuery, Millis(now)))

\* a tier returns a match: findMatchingQuestion caches it and returns it
ReturnMatch(c, queried, match) ==
    /\ cache' = setCachedResult(cache, calls[c].clean, match, Millis(now))
    /\ calls' = [queried EXCEPT ![c].pc = "done", ![c].ret = match]

\* findMatchingQuestion returns null
ReturnNull(c, queried) ==
    /\ calls' = [queried EXCEPT ![c].pc = "done", ![c].ret = Null]
    /\ UNCHANGED cache

\* findMatchingQuestion goes on to the next tier
NextTier(c, queried, tier) ==
    /\ calls' = [queried EXCEPT ![c].pc = tier, ![c].variation = 1]
    /\ UNCHANGED cache

\* the call has queried the tier; textSearch is called as partialMatch returns
Queried(c, tier) ==
    [calls EXCEPT ![c].tiers = IF tier = "partial+text" THEN @ \o <<"partial", "text">>
                               ELSE Append(@, tier)]

\* exactMatch returns, or the store fails under it
ExactTier(c) ==
    /\ calls[c].pc = "exact"
    /\ \E storeUp \in BOOLEAN, match \in {exactMatch(calls[c].clean)} :
          IF ~storeUp THEN ReturnNull(c, Queried(c, "exact"))
          ELSE IF match # Null THEN ReturnMatch(c, Queried(c, "exact"), match)
          ELSE NextTier(c, Queried(c, "exact"), "partial")
    /\ UNCHANGED <<mode, unitVars, request, scorerVars, splitterVars, now>>

\* partialMatch returns, or the store fails under it
PartialTier(c) ==
    /\ calls[c].pc = "partial"
    /\ \E storeUp \in BOOLEAN, match \in {partialMatch(calls[c].clean)} :
          IF ~storeUp THEN ReturnNull(c, Queried(c, "partial"))
          ELSE IF match # Null THEN ReturnMatch(c, Queried(c, "partial"), match)
          ELSE IF Len(calls[c].clean) > 20
               THEN NextTier(c, Queried(c, "partial+text"), "text")
          ELSE ReturnNull(c, Queried(c, "partial"))
    /\ UNCHANGED <<mode, unitVars, request, scorerVars, splitterVars, now>>

\* textSearch returns its best match
FinishText(c, best) ==
    IF best # Null THEN ReturnMatch(c, [calls EXCEPT ![c].best = best], best)
    ELSE ReturnNull(c, calls)

\* the end of the loop body of textSearch for one search variation
AfterVariation(c, scan, last) ==
    IF scan.returned \/ scoreOf(scan.best) > Tenths(5) \/ last
    THEN FinishText(c, scan.best)
    ELSE /\ calls' = [calls EXCEPT ![c].variation = @ + 1, ![c].best = scan.best]
         /\ UNCHANGED cache

\* the scan of textSearch over what the store answered, or over the regex
\* search when the indexed search failed
textScan(k, searchQuery, answer) ==
    scanCandidates(IF answer.failed THEN "regex" ELSE "text", k.clean,
                   candidatesOf(IF answer.failed THEN findContainingTable[searchQuery]
                                ELSE Take(answer.records, 5)),
                   1, k.best)

\* one search variation of textSearch
TextTier(c) ==
    /\ calls[c].pc = "text"
    /\ \E searchQuery \in {searchVariationsTable[calls[c].clean][calls[c].variation]} :
          IF Len(trim(searchQuery)) < 3
          THEN AfterVariation(c, [best |-> calls[c].best, returned |-> FALSE],
                              calls[c].variation = 3)
          ELSE \E answer \in TextAnswers :
                 \E scan \in {textScan(calls[c], searchQuery, answer)} :
                    AfterVariation(c, scan, calls[c].variation = 3)
    /\ UNCHANGED <<mode, unitVars, request, scorerVars, splitterVars, now>>

\* the regex search of textSearch fails too: textSearch returns null
TextTierFails(c) ==
    /\ calls[c].pc = "text"
    /\ \E searchQuery \in {searchVariationsTable[calls[c].clean][calls[c].variation]} :
          Len(trim(searchQuery)) >= 3
    /\ ReturnNull(c, calls)
    /\ UNCHANGED <<mode, unitVars, request, scorerVars, splitterVars, now>>

\* POST /salesqa/clear-cache: clearAllCache
ClearAllCache ==
    /\ mode \in {"match", "service", "concurrent"}
    /\ cache # <<>>
    /\ cache' = <<>>
    /\ UNCHANGED <<mode, unitVars, request, scorerVars, splitterVars, now, calls>>

\* time passes
Tick ==
    /\ mode \in {"match", "service", "cache"}
    /\ now < MaxTicks
    /\ now' = now + 1
    /\ UNCHANGED <<mode, unitVars, request, scorerVars, splitterVars, cache, calls>>

\* a caller of the service calls setCachedResult(query, result)
SetCachedResult(q, result) ==
    /\ mode \in {"service", "cache"}
    /\ cache' = setCachedResult(cache, q, result, Millis(now))
    /\ UNCHANGED <<mode, unitVars, request, scorerVars, splitterVars, now, calls>>

\* a caller of the service calls clearCache(query)
ClearCache(q) ==
    /\ mode \in {"service", "cache"}
    /\ q \in cacheKeys(cache)
    /\ cache' = clearCache(cache, q)
    /\ UNCHANGED <<mode, unitVars, request, scorerVars, splitterVars, now, calls>>

(***************************************************************************)
(* POST /pipeline: the texts of the handler                                *)
(***************************************************************************)
\* the position of the first character of s at or after i that is not
\* whitespace, Len(s) + 1 when there is none
skipSpaces(s, i) ==
    MinOf({j \in i..(Len(s) + 1) : j = Len(s) + 1 \/ ~IsSpace(Char(s, j))})

\* the position of the first double quote of s at or after i, Len(s) + 1
\* when there is none
nextQuote(s, i) ==
    MinOf({j \in i..(Len(s) + 1) : j = Len(s) + 1 \/ Char(s, j) = "\""})

\* /Customer said:\s*"([^"]+)"/i matches s at position i
saidAt(s, lower, i) ==
    /\ MatchAt(lower, i, "customer said:")
    /\ skipSpaces(s, i + 14) <= Len(s)
    /\ Char(s, skipSpaces(s, i + 14)) = "\""
    /\ nextQuote(s, skipSpaces(s, i + 14) + 1) >= skipSpaces(s, i + 14) + 2
    /\ nextQuote(s, skipSpaces(s, i + 14) + 1) <= Len(s)

\* the text between the quote at position q and the next quote, trimmed
quotedAt(s, q) == trim(SubSeq(s, q + 1, nextQuote(s, q + 1) - 1))

saidPositions(s, lower) == {i \in 1..Len(s) : saidAt(s, lower, i)}

firstSaid(s, hits) ==
    IF hits = {} THEN s ELSE quotedAt(s, skipSpaces(s, MinOf(hits) + 14))

extractUserQuestion(transcript) ==
    firstSaid(transcript, saidPositions(transcript, toLowerCase(transcript)))

\* the reply of the gptError handler to a quota or rate-limit error
quotaFallback ==
    "Response A: I'd be happy to help you with that. Let me provide you with more information."
    \o "\n\n"
    \o "Response B: That's a great question. Based on your needs, here's what I recommend."
    \o "\n\n"
    \o "Response C: I understand your concern. Let's explore the best solution for you."

\* the reply of the gptError handler to any other error
failureText == "AI response generation failed. Please try again."

\* no error was thrown
NoError == [status |-> 0, code |-> "none"]

\* the errors the completion call throws: rate limit, exhausted quota with
\* and without a status, a server error, and an error that is not the API's
GptErrors ==
    { [status |-> 429, code |-> "rate_limit_exceeded"],
      [status |-> 429, code |-> "insufficient_quota"],
      [status |-> Undefined, code |-> "insufficient_quota"],
      [status |-> 500, code |-> "server_error"],
      [status |-> Undefined, code |-> "none"] }

isQuotaError_statusOnly(gptError) == gptError.status = 429

isQuotaError(gptError) ==
    gptError.status = 429 \/ gptError.code = "insufficient_quota"

replyAfterError_alwaysFallback(gptError) == quotaFallback

replyAfterError(gptError) ==
    IF isQuotaError(gptError) THEN quotaFallback ELSE failureText

\* one matched question as the reply shows it
optionsOf(match) ==
    "Response A: " \o match.answers[1] \o "\nResponse B: " \o match.answers[2]
        \o "\nResponse C: " \o match.answers[3]

\* matchedQuestions.map(...).join('\n\n')
RECURSIVE databaseReply(_)
databaseReply(matches) ==
    IF Len(matches) = 1 THEN optionsOf(matches[1])
    ELSE optionsOf(matches[1]) \o "\n\n" \o databaseReply(Tail(matches))

\* an element of matchedQuestions or of forceMatches
matchEntry(query, match) ==
    [originalQuery |-> trim(query), matchedQuestion |-> match.question,
     answers |-> match.answers, category |-> match.category,
     description |-> match.description,
     similarity |-> IF match.similarity = Undefined THEN 0 ELSE match.similarity]

(***************************************************************************)
(* POST /pipeline: the text the TTS section sends to synthesis             *)
(***************************************************************************)
\* the positions of lower at which one of the two markers starts
markerPositions(lower, markerB, markerC) ==
    {i \in 1..Len(lower) : MatchAt(lower, i, markerB) \/ MatchAt(lower, i, markerC)}

\* endIndex: the position (1-based) of the first "response b:" or
\* "response c:" of the text after the label of option A, or one past its end
endIndex(lowerAfter) ==
    MinOf({Len(lowerAfter) + 1} \cup markerPositions(lowerAfter, "response b:", "response c:"))

\* afterResponseA
afterResponseA(text, responseAIndex) ==
    SubSeq(text, responseAIndex + Len("Response A:"), Len(text))

\* option A of the text after its label, with its whitespace cleaned up
cleanedOption(after, end) ==
    trim(collapseSpaces(trim(SubSeq(after, 1, end - 1))))

\* responseText.split('\n')[0]
firstLine(text) ==
    SubSeq(text, 1, MinOf({Len(text) + 1} \cup {i \in 1..Len(text) : Char(text, i) = "\n"}) - 1)

\* firstLine.replace(/^Response [ABC]:\s*/i, "")
withoutLabel(line, lower) ==
    IF /\ MatchAt(lower, 1, "response ")
       /\ Len(lower) >= 11
       /\ Char(lower, 10) \in {"a", "b", "c"}
       /\ Char(lower, 11) = ":"
    THEN SubSeq(line, skipSpaces(line, 12), Len(line))
    ELSE line

\* the text extracted for option A, or from the first line when the reply
\* carries no "Response A:"
extractedText(text, lower, responseAIndex) ==
    IF responseAIndex # 0
    THEN cleanedOption(afterResponseA(text, responseAIndex),
                       endIndex(afterResponseA(lower, responseAIndex)))
    ELSE trim(withoutLabel(firstLine(text), firstLine(lower)))

\* the strict final check: the text is cut where "response b" or
\* "response c" starts
cutAt(ttsText, positions) ==
    IF positions = {} THEN ttsText ELSE trim(SubSeq(ttsText, 1, MinOf(positions) - 1))

\* the TTS section without its strict final check
strictCheck_none(ttsText) == ttsText

strictCheck(ttsText) ==
    cutAt(ttsText, markerPositions(toLowerCase(ttsText), "response b", "response c"))

\* the final validation: a text that still names option B or C is dropped
finalValidation(ttsText) ==
    IF markerPositions(toLowerCase(ttsText), "response b", "response c") # {}
    THEN "" ELSE ttsText

\* ttsText as the TTS section leaves it before the synthesis call
ttsTextOf(responseText) ==
    finalValidation(strictCheck(
        extractedText(responseText, toLowerCase(responseText),
                      indexOf(toLowerCase(responseText), "response a:"))))

\* a synthesis call for every labelled option of the reply
synthesisCalls_perOption(responseText, ttsText) ==
    Cardinality(markerPositions(toLowerCase(responseText), "response ", "response "))

\* the synthesizeSpeech calls of the TTS section
synthesisCalls(responseText, ttsText) ==
    IF responseText = "" \/ ttsText = "" THEN 0 ELSE 1

(***************************************************************************)
(* POST /pipeline: the request handler, one action per suspension point    *)
(***************************************************************************)
\* req.file.size below which the audio counts as empty
MinAudioBytes == 1000

\* req.file.size of the requests followed; Undefined when there is no file
FileSizes == {Undefined, MinAudioBytes - 1, MinAudioBytes}

\* what speech recognition hears
Transcripts ==
    {"Is there a free trial?", " your price", "Which price plan is the best one?",
     "Hi, how are you?", "Customer said: \"your price\""}

\* message.content of the completion: three labelled options, a plain
\* sentence, no text
ReplyTexts ==
    {"Response A: Sure, we can.\nResponse B: Yes.\nResponse C: Of course.",
     "We can help with that.", ""}

\* sentimentData and audioUrl are FALSE for null, keyHighlights for {};
\* nullText says that responseText is null and not a string
IdleRequest ==
    [pc |-> "idle", mode |-> "", transcript |-> "", sentimentData |-> FALSE,
     highlightsFailed |-> FALSE, highlightsContent |-> "", highlightsThrew |-> FALSE,
     keyHighlights |-> FALSE, questions |-> <<>>, queue |-> <<>>,
     forcing |-> FALSE, matchedQuestions |-> <<>>, forceMatches |-> <<>>,
     hit |-> FALSE, relatedLookups |-> 0, completions |-> 0, completionsAfterHit |-> 0,
     gptError |-> NoError, responseText |-> "", nullText |-> FALSE, synthCalls |-> 0,
     ttsError |-> FALSE, audioUrl |-> FALSE, responses |-> 0, status |-> 0, body |-> ""]

Send_twice(r, status, body) ==
    request' = [r EXCEPT !.pc = "sent", !.status = status, !.body = body,
                         !.responses = @ + 2]

\* res.status(status).json(...)
Send(r, status, body) ==
    request' = [r EXCEPT !.pc = "sent", !.status = status, !.body = body,
                         !.responses = @ + 1]

\* the fields of the object each response carries
responseFields(body) ==
    CASE body = "error" -> {"error"}
      [] body = "empty" ->
            {"transcript", "responseText", "audioUrl", "keyHighlights", "message", "meta"}
      [] body = "sttError" ->
            {"error", "transcript", "responseText", "message", "audioUrl",
             "keyHighlights", "meta"}
      [] body = "success" ->
            {"transcript", "responseText", "audioUrl", "keyHighlights",
             "sentimentData", "meta", "success"}
      [] body = "pipelineFailed" -> {"error"}
      [] OTHER -> {}

\* the handler up to the speech recognition call
PostPipeline(m, size) ==
    /\ mode = "pipeline"
    /\ request.pc = "idle"
    /\ IF size = Undefined THEN Send([request EXCEPT !.mode = m], 400, "error")
       ELSE IF size < MinAudioBytes THEN Send([request EXCEPT !.mode = m], 200, "empty")
       ELSE request' = [request EXCEPT !.mode = m, !.pc = "stt"]
    /\ UNCHANGED <<mode, unitVars, scorerVars, splitterVars, matcherVars>>

\* speechClient.recognize returns or throws
Recognize ==
    /\ mode = "pipeline"
    /\ request.pc = "stt"
    /\ \E failed \in BOOLEAN, heard \in Transcripts \cup {""} :
          IF failed
          THEN Send([request EXCEPT !.responseText = "AI response generation failed"],
                    500, "sttError")
          ELSE IF trim(heard) = "" THEN Send(request, 200, "empty")
          ELSE request' = [request EXCEPT !.pc = "sentiment", !.transcript = trim(heard)]
    /\ UNCHANGED <<mode, unitVars, scorerVars, splitterVars, matcherVars>>

\* analyzeSentiment returns or throws
AnalyzeSentiment ==
    /\ mode = "pipeline"
    /\ request.pc = "sentiment"
    /\ \E analysed \in BOOLEAN :
          request' = [request EXCEPT !.pc = "highlights", !.sentimentData = analysed]
    /\ UNCHANGED <<mode, unitVars, scorerVars, splitterVars, matcherVars>>

\* the query findMultipleMatchingQuestions passes on
IsQuery(query) == trim(query) # ""

\* the search loop calls findMatchingQuestion, the force loop
\* findMatchingQuestionForce, for the next question
CallNext(r) ==
    /\ request' = [r EXCEPT !.pc = "db"]
    /\ BeginFind("request",
                 [IdleCall EXCEPT !.query = trim(Head(r.queue)), !.force = r.forcing],
                 IF r.forcing THEN clearCache(cache, trim(Head(r.queue))) ELSE cache)

\* the searches are over: the reply is composed from the store, or the
\* handler goes on to the completion call
Decide(r) ==
    /\ request' = IF Len(r.matchedQuestions) > 0
                  THEN [r EXCEPT !.pc = "tts", !.hit = TRUE,
                                 !.responseText = databaseReply(r.matchedQuestions)]
                  ELSE [r EXCEPT !.pc = "related"]
    /\ UNCHANGED <<cache, calls>>

needsForce(matchedQuestions) ==
    Len(matchedQuestions) = 0 \/ matchedQuestions[1].similarity < Tenths(6)

\* findMultipleMatchingQuestions has returned
AfterSearch(r) ==
    IF needsForce(r.matchedQuestions) /\ r.questions # <<>>
    THEN CallNext([r EXCEPT !.forcing = TRUE, !.queue = r.questions])
    ELSE Decide(r)

\* the force loop has ended
AfterForce(r) ==
    Decide(IF Len(r.forceMatches) > 0
           THEN [r EXCEPT !.matchedQuestions = r.forceMatches] ELSE r)

\* the loop goes on with its next question, or ends
Continue(r) ==
    IF r.queue # <<>> THEN CallNext(r)
    ELSE IF r.forcing THEN AfterForce(r)
    ELSE AfterSearch(r)

\* parseMultipleQuestions(extractUserQuestion(transcript)) of every transcript
\* a request can hold
questionsTable ==
    [t \in {trim(heard) : heard \in Transcripts} |->
        parseMultipleQuestions(extractUserQuestion(t))]

\* the GPT section up to its first await
StartReply(r) ==
    IF r.mode = "sales"
    THEN \E asked \in {questionsTable[r.transcript]} :
            Continue([r EXCEPT !.questions = asked, !.queue = SelectSeq(asked, IsQuery)])
    ELSE /\ request' = [r EXCEPT !.pc = "reply"]
         /\ UNCHANGED <<cache, calls>>

\* message.content of the key-highlights completion: an object with a
\* highlight, an object without one, and prose
HighlightContents ==
    {"{\"budget\": \"under 500\"}", "{\"budget\": null}", "Sorry, no highlights."}

\* JSON.parse on the payloads followed: it accepts the text that is, trimmed,
\* one object in braces, and throws on the others
parsesAsJson(text) ==
    \E t \in {trim(text)} : Len(t) >= 2 /\ Char(t, 1) = "{" /\ Char(t, Len(t)) = "}"

\* a field of the payload holds a string that is not empty
hasHighlight(text) ==
    \E i \in 1..Len(text) : MatchAt(text, i, "\": \"") /\ Char(text, i + 4) # "\""

\* detectKeyHighlights: the filtered fields of the payload; {} when the payload
\* does not parse and when the completion call fails; it never throws.
\* value is TRUE for an object with a highlight, FALSE for {}
detectKeyHighlights(failed, content) ==
    [threw |-> FALSE,
     value |-> ~failed /\ parsesAsJson(content) /\ hasHighlight(content)]

\* detectKeyHighlights returns: its completion call has been made, and the
\* handler goes on to the GPT section only now
DetectKeyHighlights ==
    /\ mode = "pipeline"
    /\ request.pc = "highlights"
    /\ \E failed \in BOOLEAN, content \in HighlightContents :
          \E result \in {detectKeyHighlights(failed, content)} :
             StartReply([request EXCEPT
                            !.highlightsFailed = failed,
                            !.highlightsContent = IF failed THEN "" ELSE content,
                            !.highlightsThrew = result.threw,
                            !.keyHighlights = ~result.threw /\ result.value,
                            !.completions = @ + 1])
    /\ UNCHANGED <<mode, unitVars, scorerVars, splitterVars, now>>

\* the request with what findMatchingQuestion returned for the head of its queue
collected(r, ret) ==
    [r EXCEPT !.queue = Tail(@),
              !.matchedQuestions =
                  IF ~r.forcing /\ ret # Null
                  THEN Append(@, matchEntry(Head(r.queue), ret)) ELSE @,
              !.forceMatches =
                  IF r.forcing /\ ret # Null
                  THEN Append(@, matchEntry(Head(r.queue), ret)) ELSE @]

\* findMatchingQuestion has returned to the loop that called it
MatchingReturns ==
    /\ mode = "pipeline"
    /\ request.pc = "db"
    /\ calls["request"].pc = "done"
    /\ \E r \in {collected(request, calls["request"].ret)} : Continue(r)
    /\ UNCHANGED <<mode, unitVars, scorerVars, splitterVars, now>>

\* the no-match branch awaits findRelatedQuestionsForGPT, one aggregate query
\* of the store, before it builds the prompt of the completion call
FindRelatedQuestionsForGPT ==
    /\ mode = "pipeline"
    /\ request.pc = "related"
    /\ request' = [request EXCEPT !.pc = "reply", !.relatedLookups = @ + 1]
    /\ UNCHANGED <<mode, unitVars, scorerVars, splitterVars, matcherVars>>

\* the completion call returns or throws; message.content is one of the
\* reply texts or null
GenerateReply ==
    /\ mode = "pipeline"
    /\ request.pc = "reply"
    /\ \E failure \in GptErrors \cup {NoError}, content \in ReplyTexts,
          missing \in BOOLEAN :
          request' = [request EXCEPT
                         !.pc = "tts", !.completions = @ + 1,
                         !.completionsAfterHit = IF request.hit THEN @ + 1 ELSE @,
                         !.gptError = failure,
                         !.nullText = failure = NoError /\ missing,
                         !.responseText = IF failure # NoError THEN replyAfterError(failure)
                                          ELSE IF missing THEN "" ELSE content]
    /\ UNCHANGED <<mode, unitVars, scorerVars, splitterVars, matcherVars>>

\* the texts a request can hold as responseText when the TTS section starts
ResponseTexts ==
    ReplyTexts \cup {quotaFallback, failureText}
        \cup {optionsOf(cand) : cand \in Range(candidatesOf(Corpus))}

\* the text of the synthesis request for each of them
ttsTextTable == [text \in ResponseTexts |-> ttsTextOf(text)]

afterTts_audioAnyway(r, fired, synthesized) ==
    [r EXCEPT !.synthCalls = @ + fired,
              !.ttsError = fired > 0 /\ ~synthesized,
              !.audioUrl = fired > 0]

\* the request after the TTS section: audioUrl is assigned after
\* synthesizeSpeech has returned and stays null when it throws
afterTts(r, fired, synthesized) ==
    [r EXCEPT !.synthCalls = @ + fired,
              !.ttsError = fired > 0 /\ ~synthesized,
              !.audioUrl = fired > 0 /\ synthesized]

\* the TTS section and the response: synthesizeSpeech returns or throws, and
\* a throw is logged only; a null responseText skips the section and makes the
\* log of the response throw, which the handler's outer catch answers
Synthesize ==
    /\ mode = "pipeline"
    /\ request.pc = "tts"
    /\ IF request.nullText
       THEN Send(request, 500, "pipelineFailed")
       ELSE \E ttsText \in {ttsTextTable[request.responseText]}, synthesized \in BOOLEAN :
               \E fired \in {synthesisCalls(request.responseText, ttsText)} :
                  Send(afterTts(request, fired, synthesized), 200, "success")
    /\ UNCHANGED <<mode, unitVars, scorerVars, splitterVars, matcherVars>>

(***************************************************************************)
(* The units exercised on their own: idle values                           *)
(***************************************************************************)
\* no getCachedResult call has been made; turn flips with every call
NoLookup == [query |-> "", turn |-> 0, result |-> Null]

\* the TTS section has not been applied
NoExtract == [responseText |-> "", done |-> FALSE, ttsText |-> "", calls |-> 0]

\* what a tier does with a candidate: it takes it as its best match
\* (accepted) and returns it at once (returned)
Unjudged == [accepted |-> FALSE, returned |-> FALSE]

\* no candidate has been judged
NoCandidate ==
    [query |-> "", stored |-> Null, judged |-> FALSE,
     partial |-> Unjudged, text |-> Unjudged, regex |-> Unjudged]

UnitIdle == lookup = NoLookup /\ extract = NoExtract /\ candidate = NoCandidate

(***************************************************************************)
(* Matcher harness: the routes' calls into the service                     *)
(***************************************************************************)
MatcherIdle == cache = <<>> /\ now = 0 /\ calls = [c \in Callers |-> IdleCall]

InitMatch ==
    /\ mode = "match"
    /\ ScorerIdle
    /\ SplitterIdle
    /\ MatcherIdle
    /\ request = IdleRequest
    /\ UnitIdle

\* findMultipleMatchingQuestions calls findMatchingQuestion(query.trim())
FindMatchingQuestion(c, q) ==
    /\ calls[c].pc \in {"idle", "done"}
    /\ BeginFind(c, [IdleCall EXCEPT !.query = trim(q)], cache)
    /\ UNCHANGED <<mode, unitVars, request, scorerVars, splitterVars, now>>

\* the routes call findMatchingQuestionForce(query.trim()), which clears the
\* query's entry and calls findMatchingQuestion
FindMatchingQuestionForce(c, q) ==
    /\ calls[c].pc \in {"idle", "done"}
    /\ BeginFind(c, [IdleCall EXCEPT !.query = trim(q), !.force = TRUE],
                 clearCache(cache, trim(q)))
    /\ UNCHANGED <<mode, unitVars, request, scorerVars, splitterVars, now>>

NextMatch ==
    \/ \E c \in Callers, q \in Queries : FindMatchingQuestion(c, q)
    \/ \E c \in Callers, q \in Queries \cup {""} : FindMatchingQuestionForce(c, q)
    \/ \E c \in Callers : ExactTier(c)
    \/ \E c \in Callers : PartialTier(c)
    \/ \E c \in Callers : TextTier(c)
    \/ \E c \in Callers : TextTierFails(c)
    \/ ClearAllCache
    \/ Tick

SpecMatch == InitMatch /\ [][NextMatch]_vars

\* C6: every match findMatchingQuestion returns carries a similarity in
\* [0,1], and a match accepted by the exact tier carries 1
ReturnedSimilarityPopulated ==
    \A c \in Callers :
        (calls[c].pc = "done" /\ calls[c].ret # Null)
            => /\ calls[c].ret.similarity >= 0
               /\ calls[c].ret.similarity <= Scale
               /\ (~calls[c].fromCache /\ calls[c].tiers = <<"exact">>)
                     => calls[c].ret.similarity = Scale

\* the threshold of the partial tier for an accepted question: 0.2 in the
\* basic category, else 0.4 with three query words among its words, else 0.6
partialRule(query, question, category) ==
    IF category = BasicCategory THEN Tenths(2)
    ELSE IF exactWordMatches(query, question) >= 3 THEN Tenths(4)
    ELSE Tenths(6)

\* the candidates of cands that score above the early exit
aboveExit(query, cands) ==
    {i \in 1..Len(cands) : calculateSimilarity(query, cands[i].question) > Tenths(7)}

\* the first of them, if there is one, is what the tier returned
firstAboveReturned(query, ret, cands, above) ==
    above # {}
        => ret = matchOf(cands[MinOf(above)],
                         calculateSimilarity(query, cands[MinOf(above)].question))

\* the call of c has returned what the partial tier found
PartialAnswered(c) ==
    /\ calls[c].pc = "done"
    /\ ~calls[c].fromCache
    /\ calls[c].tiers = <<"exact", "partial">>
    /\ calls[c].ret # Null

TierOrder == <<"exact", "partial", "text">>

\* C18: a call queries the tiers in the order exact, partial, text, after the
\* cache lookup and the casual filter, and returns at the first match: the
\* partial tier is queried only after the exact tier found nothing, the text
\* tier only after both found nothing and for a clean query of more than 20
\* characters
TiersInOrder ==
    \A c \in Callers :
        /\ \E n \in 0..3 : calls[c].tiers = SubSeq(TierOrder, 1, n)
        /\ calls[c].fromCache => calls[c].tiers = <<>>
        /\ (calls[c].clean # "" /\ isCasualConversation(calls[c].clean))
              => calls[c].tiers = <<>>
        /\ calls[c].pc = "exact" => calls[c].tiers = <<>>
        /\ calls[c].pc = "partial" => calls[c].tiers = <<"exact">>
        /\ calls[c].pc = "text" => calls[c].tiers = TierOrder
        /\ (Len(calls[c].tiers) >= 2 \/ calls[c].pc = "partial")
              => exactMatch(calls[c].clean) = Null
        /\ (Len(calls[c].tiers) = 3 \/ calls[c].pc = "text")
              => /\ partialMatch(calls[c].clean) = Null
                 /\ Len(calls[c].clean) > 20

\* a call that went through all three tiers and returned what the text tier
\* found
TextTierMatched ==
    \E c \in Callers :
        /\ calls[c].pc = "done"
        /\ calls[c].tiers = TierOrder
        /\ calls[c].ret # Null
        /\ ~calls[c].fromCache

\* C28: a call of findMatchingQuestion that finds an unexpired entry under
\* its query returns that entry's match and queries no tier, whichever tier
\* the match came from
CachedMatchReused ==
    \A c \in Callers :
        (calls[c].seen # Null /\ ~calls[c].force)
            => /\ calls[c].fromCache
               /\ calls[c].ret = calls[c].seen
               /\ calls[c].tiers = <<>>

\* C28 for the entries the cache test trusts: a similarity of at least 0.7
TrustedMatchReused ==
    \A c \in Callers :
        (calls[c].seen # Null /\ ~calls[c].force /\ isTrusted(calls[c].seen))
            => /\ calls[c].fromCache
               /\ calls[c].ret = calls[c].seen
               /\ calls[c].tiers = <<>>

\* the corpus scans that no call of findMatchingQuestion reaches
CorpusScans == {"fuzzy", "fallback"}

\* C25: the fuzzy and fallback tiers are run by the force re-search only: a
\* default call never runs them, and a force call whose earlier tiers found
\* nothing has run both
ForceRunsCorpusScans ==
    \A c \in Callers :
        /\ ~calls[c].force => Range(calls[c].tiers) \cap CorpusScans = {}
        /\ (calls[c].force /\ calls[c].pc = "done" /\ calls[c].ret = Null
               /\ Len(calls[c].tiers) >= 2 /\ partialMatch(calls[c].clean) = Null)
              => CorpusScans \subseteq Range(calls[c].tiers)

\* the half of C25 on the default path, and the same of the force path
NoCallRunsCorpusScans ==
    \A c \in Callers : Range(calls[c].tiers) \cap CorpusScans = {}

\* the step is a return of the call of c
Returns(c) == calls'[c] # calls[c] /\ calls'[c].pc = "done"

\* C19: when a call returns a match of a tier, the cache holds right after it
\* an entry under the normalized query whose result is that match, with a
\* similarity; a call that returns null adds no entry and writes none
CacheHoldsReturnedMatch ==
    [][\A c \in Callers :
          Returns(c) =>
              /\ (calls'[c].ret # Null /\ ~calls'[c].fromCache)
                    => \E i \in 1..Len(cache') :
                          /\ cache'[i].key = normalizeQuery(calls'[c].query)
                          /\ cache'[i].result = calls'[c].ret
                          /\ cache'[i].result.similarity # Undefined
              /\ calls'[c].ret = Null
                    => \A i \in 1..Len(cache') : \E j \in 1..Len(cache) : cache'[i] = cache[j]]_vars

\* C19 without the similarity: the entry under the normalized query holds the
\* match the call returned, and a call that returns null writes no entry
CacheHoldsReturnedResult ==
    [][\A c \in Callers :
          Returns(c) =>
              /\ (calls'[c].ret # Null /\ ~calls'[c].fromCache)
                    => \E i \in 1..Len(cache') :
                          /\ cache'[i].key = normalizeQuery(calls'[c].query)
                          /\ cache'[i].result = calls'[c].ret
              /\ calls'[c].ret = Null
                    => \A i \in 1..Len(cache') : \E j \in 1..Len(cache) : cache'[i] = cache[j]]_vars

(***************************************************************************)
(* Concurrent harness: two requests in flight on a cache that is full      *)
(***************************************************************************)
\* the requests in flight; each is suspended while a tier queries the store
ConcurrentCallers == {"first", "second"}

\* the questions the two requests ask
ConcurrentQueries == {"Is there a free trial?", "your price"}

\* the key of the i-th question answered before the requests arrive
EarlierKey(i) == "question " \o ToString(i)

\* the cache after n different questions have been answered from the store
EarlierCache(n) ==
    [i \in 1..n |-> [key |-> EarlierKey(i),
                     result |-> matchOf(candidatesOf(Corpus)[1], Tenths(9)),
                     timestamp |-> 0]]

InitConcurrent ==
    /\ mode = "concurrent"
    /\ ScorerIdle
    /\ SplitterIdle
    /\ request = IdleRequest
    /\ UnitIdle
    /\ now = 0
    /\ calls = [c \in ConcurrentCallers |-> IdleCall]
    /\ \E n \in {cacheMaxSize - 1, cacheMaxSize} : cache = EarlierCache(n)

NextConcurrent ==
    \/ \E c \in ConcurrentCallers, q \in ConcurrentQueries : FindMatchingQuestion(c, q)
    \/ \E c \in ConcurrentCallers, q \in ConcurrentQueries : FindMatchingQuestionForce(c, q)
    \/ \E c \in ConcurrentCallers : ExactTier(c)
    \/ \E c \in ConcurrentCallers : PartialTier(c)
    \/ ClearAllCache

SpecConcurrent == InitConcurrent /\ [][NextConcurrent]_vars

\* the keys of a cache in the order of their insertion
keysInOrder(c) == [i \in 1..Len(c) |-> c[i].key]

\* C20: under every interleaving of the requests the cache holds at most
\* cacheMaxSize entries, and a key that is new to a full cache takes the place
\* of the entry inserted first, all the others staying in their order
CacheBoundedOldestEvicted ==
    /\ [](Len(cache) <= cacheMaxSize)
    /\ [][(Len(cache) = cacheMaxSize /\ cacheKeys(cache') \ cacheKeys(cache) # {})
            => /\ Len(cache') = cacheMaxSize
               /\ keysInOrder(cache') \in
                     {Append(Tail(keysInOrder(cache)), key) :
                         key \in cacheKeys(cache') \ cacheKeys(cache)}]_vars

\* a full cache in which the question of a request has taken the place of the
\* entry inserted first, while the other request is still in flight
OldestEntryReplaced ==
    /\ Len(cache) = cacheMaxSize
    /\ cache[1].key = EarlierKey(2)
    /\ cache[cacheMaxSize].key \in {normalizeQuery(q) : q \in ConcurrentQueries}
    /\ \E c \in ConcurrentCallers : calls[c].pc \in {"exact", "partial"}

(***************************************************************************)
(* Cache harness: the methods of the cache called directly, on a cache     *)
(* that is empty, one short of full, or full                               *)
(***************************************************************************)
\* a caller of the service calls getCachedResult(query)
GetCachedResult(q) ==
    /\ mode = "cache"
    /\ lookup' = [query |-> q, turn |-> 1 - lookup.turn,
                  result |-> getCachedResult(cache, q, Millis(now))]
    /\ cache' = cacheAfterGet(cache, q, Millis(now))
    /\ UNCHANGED <<mode, extract, candidate, request, scorerVars, splitterVars, now, calls>>

\* the questions the callers pass
CacheQueries == {"your price", "Is there a free trial?"}

\* the results the callers store
CacheResults == {matchOf(candidatesOf(Corpus)[i], Tenths(9)) : i \in 1..2}

InitCache ==
    /\ mode = "cache"
    /\ ScorerIdle
    /\ SplitterIdle
    /\ request = IdleRequest
    /\ UnitIdle
    /\ now = 0
    /\ calls = [c \in Callers |-> IdleCall]
    /\ \E n \in {0, cacheMaxSize - 1, cacheMaxSize} : cache = EarlierCache(n)

NextCache ==
    \/ \E q \in CacheQueries, result \in CacheResults : SetCachedResult(q, result)
    \/ \E q \in CacheQueries : GetCachedResult(q)
    \/ \E q \in CacheQueries : ClearCache(normalizeQuery(q))
    \/ Tick

SpecCache == InitCache /\ [][NextCache]_vars

\* the age of the entry under key, in milliseconds
ageOf(c, key, clock) == clock - cacheEntry(c, key).timestamp

\* C21: getCachedResult returns only the result of an entry younger than the
\* time-to-live; the lookup of an entry that has reached it deletes the entry
\* and nothing else, and the lookup of a younger entry leaves the cache as it is
ExpiredNeverReturned ==
    [][lookup'.turn # lookup.turn
          => \E key \in {normalizeQuery(lookup'.query)} :
                IF key \notin cacheKeys(cache)
                THEN lookup'.result = Null /\ cache' = cache
                ELSE IF ageOf(cache, key, Millis(now)) >= cacheTimeout
                THEN /\ lookup'.result = Null
                     /\ key \notin cacheKeys(cache')
                     /\ cache' = SelectSeq(cache, LAMBDA e : e.key # key)
                ELSE /\ lookup'.result = cacheEntry(cache, key).result
                     /\ cache' = cache]_vars

\* an entry whose age is the time-to-live has been looked up: nothing came
\* back and the entry is gone, the others are kept
ExpiredEntryLookedUp ==
    /\ now = 1
    /\ lookup.turn = 1
    /\ lookup.result = Null
    /\ normalizeQuery(lookup.query) \notin cacheKeys(cache)
    /\ \E i \in 1..Len(cache) : cache[i].timestamp = 0 /\ cache[i].key \in
          {normalizeQuery(q) : q \in CacheQueries}

\* C29: setCachedResult for a key that the cache holds leaves the entries of
\* all other keys as they are, and the size of the cache
RecachingKeepsOthers ==
    \A q \in CacheQueries, result \in CacheResults :
        normalizeQuery(q) \in cacheKeys(cache)
            => \E after \in {setCachedResult(cache, q, result, Millis(now))} :
                  /\ Len(after) = Len(cache)
                  /\ \A i \in 1..Len(cache) :
                        cache[i].key # normalizeQuery(q)
                            => \E j \in 1..Len(after) : after[j] = cache[i]

(***************************************************************************)
(* Service harness: any sequence of calls of the service's methods         *)
(***************************************************************************)
\* the questions the callers of the service pass: both are too short for the
\* text tier
ServiceQueries == {"Hi, how are you?", "your price"}

\* the results the callers of the service store: one without a similarity and
\* one at the threshold
StoredResults ==
    {matchOf(candidatesOf(Corpus)[1], sim) : sim \in {Undefined, Tenths(7)}}

InitService ==
    /\ mode = "service"
    /\ ScorerIdle
    /\ SplitterIdle
    /\ MatcherIdle
    /\ request = IdleRequest
    /\ UnitIdle

NextService ==
    \/ \E c \in Callers, q \in ServiceQueries : FindMatchingQuestion(c, q)
    \/ \E c \in Callers, q \in ServiceQueries : FindMatchingQuestionForce(c, q)
    \/ \E c \in Callers : ExactTier(c)
    \/ \E c \in Callers : PartialTier(c)
    \/ \E q \in ServiceQueries, result \in StoredResults : SetCachedResult(q, result)
    \/ \E q \in ServiceQueries : ClearCache(normalizeQuery(q))
    \/ ClearAllCache
    \/ Tick

SpecService == InitService /\ [][NextService]_vars

\* the stages of a call in which a tier is about to answer
TierStages == {"exact", "partial", "text"}

\* the call found an unexpired result that the threshold does not admit
SawStale(k) == k.pc # "idle" /\ k.seen # Null /\ k.seen.similarity < Tenths(7)

\* C1 as stated: a result comes from the cache only with a similarity of at
\* least 0.7; after an unexpired cached result with a lower similarity, or with
\* none, the entry is gone, the stale result is not returned and the tiers
\* are run again
StaleCacheRerunsTiers ==
    \A c \in Callers :
        /\ (calls[c].pc # "idle" /\ calls[c].fromCache)
              => (calls[c].ret = calls[c].seen /\ calls[c].seen.similarity >= Tenths(7))
        /\ SawStale(calls[c])
              => /\ ~calls[c].fromCache
                 /\ calls[c].staleDropped
                 /\ (calls[c].pc \in TierStages \/ Len(calls[c].tiers) > 0)

\* C1, amended: a result comes from the cache only with a similarity of at
\* least 0.7; after an unexpired cached result with a lower similarity, or with
\* none, the entry is gone, the stale result is not returned and matching is
\* redone: small talk returns null without a tier, every other query runs the
\* tiers again
StaleCacheNeverReturned ==
    \A c \in Callers :
        /\ (calls[c].pc # "idle" /\ calls[c].fromCache)
              => (calls[c].ret = calls[c].seen /\ calls[c].seen.similarity >= Tenths(7))
        /\ SawStale(calls[c])
              => /\ ~calls[c].fromCache
                 /\ calls[c].staleDropped
                 /\ IF isCasualConversation(calls[c].clean)
                    THEN calls[c].pc = "done" /\ calls[c].ret = Null
                            /\ calls[c].tiers = <<>>
                    ELSE calls[c].pc \in TierStages \/ Len(calls[c].tiers) > 0

\* a call that found a stored result below the threshold, dropped it, ran the
\* exact and the partial tier again and returned the fresh match
StaleEntryRematched ==
    \E c \in Callers :
        /\ calls[c].pc = "done"
        /\ calls[c].seen # Null
        /\ calls[c].seen.similarity > 0
        /\ calls[c].seen.similarity < Tenths(7)
        /\ calls[c].staleDropped
        /\ calls[c].tiers = <<"exact", "partial">>
        /\ calls[c].ret # Null
        /\ ~calls[c].fromCache

InitPipeline ==
    /\ mode = "pipeline"
    /\ ScorerIdle
    /\ SplitterIdle
    /\ MatcherIdle
    /\ request = IdleRequest
    /\ UnitIdle

NextPipeline ==
    \/ \E m \in {"sales", "support"}, size \in FileSizes : PostPipeline(m, size)
    \/ Recognize
    \/ AnalyzeSentiment
    \/ DetectKeyHighlights
    \/ MatchingReturns
    \/ ExactTier("request")
    \/ PartialTier("request")
    \/ TextTier("request")
    \/ TextTierFails("request")
    \/ FindRelatedQuestionsForGPT
    \/ GenerateReply
    \/ Synthesize

SpecPipeline == InitPipeline /\ [][NextPipeline]_vars

\* the step starts the force loop of the request
ForceStarts == request'.forcing /\ ~request.forcing

\* the call that has just returned to the search loop was answered by the
\* exact tier, and its match is the first of matchedQuestions
exactAnsweredFirst(found) ==
    /\ calls["request"].pc = "done"
    /\ calls["request"].ret # Null
    /\ ~calls["request"].fromCache
    /\ calls["request"].tiers = <<"exact">>
    /\ Len(found) = 1

\* C26: the force loop starts only when the search returned no match or a
\* first match below 0.6, never when the exact tier answered the search, and
\* its matches replace those of the search only when there is one
ForceOnlyAfterPoorSearch ==
    [][/\ ForceStarts
          => /\ needsForce(request'.matchedQuestions)
             /\ ~exactAnsweredFirst(request'.matchedQuestions)
       /\ (request.forcing /\ request.pc = "db" /\ request'.pc # "db")
          => request'.matchedQuestions =
                IF Len(request'.forceMatches) > 0 THEN request'.forceMatches
                ELSE request.matchedQuestions]_vars

\* C26 without the exact tier: when the force loop starts and when its
\* matches replace those of the search
ForceAfterLowSimilarity ==
    [][/\ ForceStarts => needsForce(request'.matchedQuestions)
       /\ (request.forcing /\ request.pc = "db" /\ request'.pc # "db")
          => request'.matchedQuestions =
                IF Len(request'.forceMatches) > 0 THEN request'.forceMatches
                ELSE request.matchedQuestions]_vars

\* the positions of text at which a label "Response X:" starts
labelPositions(text) ==
    {i \in 1..Len(text) :
        MatchAt(text, i, "Response ") /\ i + 10 <= Len(text) /\ Char(text, i + 10) = ":"}

\* the letters of the labels of text, in the order of the text
optionLabels(text, positions) ==
    [k \in 1..Cardinality(positions) |-> Char(text, Nth(positions, k) + 9)]

\* C2: a sales request whose database search has confirmed a match has made
\* no generative completion call at all
DatabaseHitSkipsCompletion ==
    (request.mode = "sales" /\ request.hit) => request.completions = 0

\* no completion call is issued once the database search has confirmed a match
NoCompletionAfterHit == request.completionsAfterHit = 0

QuotaErrorYieldsFallback ==
    (request.gptError.status = 429 \/ request.gptError.code = "insufficient_quota")
        => /\ request.responseText = quotaFallback
           /\ request.responseText # ""
           /\ MatchAt(request.responseText, 1, "Response A:")
           /\ optionLabels(request.responseText, labelPositions(request.responseText))
                = <<"A", "B", "C">>

\* the response to a request whose completion call failed on the quota code
\* alone has been sent
QuotaFallbackSent ==
    /\ request.pc = "sent"
    /\ request.status = 200
    /\ request.gptError = [status |-> Undefined, code |-> "insufficient_quota"]

\* the GPT section of the request has reached one of its calls
replySelectionStarted ==
    \/ calls["request"].pc # "idle"
    \/ request.pc \in {"db", "related", "reply", "tts", "sent"}

\* C11: sentiment analysis and the database search are launched before either
\* is awaited: while the handler of a sales request waits for the sentiment
\* call, the database search has been started
SearchStartedWhileSentimentPending ==
    (request.mode = "sales" /\ request.pc = "sentiment") => calls["request"].pc # "idle"

\* C12: a sales request without a database hit issues its completion call
\* with no query of the store between the miss and the call
NoCorpusLookupBeforeCompletion ==
    (request.mode = "sales" /\ ~request.hit /\ request.pc \in {"reply", "tts", "sent"})
        => request.relatedLookups = 0

\* C13: key-highlight extraction never holds the handler back: while it is
\* pending, reply selection is under way
HighlightsNeverBlockReply ==
    request.pc = "highlights" => replySelectionStarted

\* the completion call of the request failed with an error that is not a
\* quota or rate-limit error
otherErrorThrown ==
    /\ request.gptError # NoError
    /\ request.gptError.status # 429
    /\ request.gptError.code # "insufficient_quota"

\* the fields of the success response the caller reads
successFields == {"transcript", "responseText", "audioUrl", "keyHighlights", "sentimentData"}

\* C14: when the completion call fails with any other error than quota or
\* rate limit, responseText is the fixed failure string and the request goes
\* on to the structured success response
OtherErrorStillSucceeds ==
    otherErrorThrown
        => /\ request.responseText = failureText
           /\ ~request.nullText
           /\ request.pc \in {"tts", "sent"}
           /\ request.pc = "sent"
                 => /\ request.status = 200
                    /\ request.body = "success"
                    /\ successFields \subseteq responseFields(request.body)

\* the response to a request whose completion call failed with a server
\* error has been sent
ServerErrorAnswered ==
    /\ request.pc = "sent"
    /\ request.gptError = [status |-> 500, code |-> "server_error"]
    /\ request.responseText = failureText

\* C15: when synthesizeSpeech throws, the step that ends the TTS section
\* sends the success response with responseText as it was and audioUrl null
SynthesisFailureNotFatal ==
    [][request'.ttsError
          => /\ request'.pc = "sent"
             /\ request'.status = 200
             /\ request'.body = "success"
             /\ request'.responseText = request.responseText
             /\ request'.nullText = request.nullText
             /\ ~request'.audioUrl]_vars

\* a response sent after synthesizeSpeech threw on the text of a database reply
SynthesisFailedOnDatabaseReply ==
    /\ request.pc = "sent"
    /\ request.ttsError
    /\ request.hit
    /\ request.synthCalls = 1

\* C16: a completion whose text holds no parseable JSON payload makes the
\* call that asked for it fail, and no default object is returned
UnparseablePayloadReported ==
    (request.highlightsContent # "" /\ ~parsesAsJson(request.highlightsContent))
        => request.highlightsThrew

\* every external call of the request returns or throws in the end
SpecPipelineLive == SpecPipeline /\ WF_vars(NextPipeline)

\* C17: every request ends with exactly one response, on every path, and the
\* response to an unexpected error is the generic failure object alone
ExactlyOneResponse ==
    /\ [](request.responses <= 1)
    /\ [](request.responses = 1 <=> request.pc = "sent")
    /\ <>(request.pc = "sent")
    /\ [](request.body = "pipelineFailed"
            => request.status = 500 /\ responseFields(request.body) = {"error"})

\* the outer catch has answered a request whose completion held no text
PipelineFailureSent ==
    /\ request.pc = "sent"
    /\ request.responses = 1
    /\ request.body = "pipelineFailed"
    /\ request.nullText

(***************************************************************************)
(* Scorer harness: the scorer applied to a pair of strings, both ways      *)
(***************************************************************************)
MaxTokens == 3

Vocabulary == <<"price", "the", "Offers">>

RECURSIVE TokenStrings(_)
TokenStrings(n) ==
    IF n = 0 THEN {""}
    ELSE LET shorter == TokenStrings(n - 1)
         IN shorter \cup
            {(IF s = "" THEN "" ELSE s \o " ") \o Vocabulary[k] :
                s \in shorter, k \in 1..Len(Vocabulary)}

ScoreInputs == TokenStrings(MaxTokens)

InitScore ==
    /\ mode = "score"
    /\ str1 \in ScoreInputs
    /\ str2 \in ScoreInputs
    /\ score12 = Pending
    /\ score21 = Pending
    /\ SplitterIdle
    /\ MatcherIdle
    /\ request = IdleRequest
    /\ UnitIdle

Score12 ==
    /\ mode = "score"
    /\ score12 = Pending
    /\ score12' = calculateSimilarity(str1, str2)
    /\ UNCHANGED <<mode, unitVars, request, str1, str2, score21, splitterVars, matcherVars>>

Score21 ==
    /\ mode = "score"
    /\ score21 = Pending
    /\ score21' = calculateSimilarity(str2, str1)
    /\ UNCHANGED <<mode, unitVars, request, str1, str2, score12, splitterVars, matcherVars>>

NextScore == Score12 \/ Score21

SpecScore == InitScore /\ [][NextScore]_vars

LengthRatioBelow(a, b) ==
    Min(Len(a), Len(b)) * 10 < 3 * (IF Len(a) > Len(b) THEN Len(a) ELSE Len(b))

\* C7: calculateSimilarity(a, b) = calculateSimilarity(b, a) for all a, b
SimilaritySymmetric ==
    (score12 # Pending /\ score21 # Pending) => score12 = score21

\* C8: a string that keeps at least one token after filtering scores 1
\* against itself
SelfSimilarityIsOne ==
    (score12 # Pending /\ str1 = str2 /\ Len(meaningfulWords(str1)) > 0)
        => score12 = Scale

SelfSimilarityScored ==
    /\ score12 = Scale
    /\ str1 = str2
    /\ Len(meaningfulWords(str1)) = 2
    /\ Len(splitSpace(str1)) = 3
    /\ Cardinality(Range(meaningfulWords(str1))) = 1

\* C9: every score lies in [0,1], and it is 0 when a string is empty, when
\* the length ratio is below 0.3, or when a filtered token list is empty
ScoreInUnitInterval ==
    score12 # Pending =>
        /\ score12 >= 0
        /\ score12 <= Scale
        /\ (Len(str1) = 0 \/ Len(str2) = 0) => score12 = 0
        /\ LengthRatioBelow(str1, str2) => score12 = 0
        /\ (Len(meaningfulWords(str1)) = 0 \/ Len(meaningfulWords(str2)) = 0)
                => score12 = 0

\* a pair of strings sharing tokens whose score is capped at 1
ScoreCapped ==
    /\ score12 = Scale
    /\ str1 # str2
    /\ Len(str1) > 0 /\ Len(str2) > 0
    /\ calculateSimilarity_uncapped(str1, str2) > Scale

\* intersection.length / union.length of two token lists that share a token
jaccardSimilarityOf(words1, words2) ==
    (Len(intersectionOf(words1, words2)) * Scale)
        \div Cardinality(Range(words1) \cup Range(words2))

\* const maxOrderBonus = Math.min(minLength * 0.05, 0.2)
maxOrderBonus(words1, words2) ==
    Min(Min(Len(words1), Len(words2)) * ((5 * Scale) \div 100), Tenths(2))

\* the call went on to the bonuses: both strings are long enough, they
\* share a token and the Jaccard ratio is at most 0.8
bonusesAdded(a, b) ==
    /\ Len(a) > 0
    /\ Len(b) > 0
    /\ ~LengthRatioBelow(a, b)
    /\ Len(intersectionOf(meaningfulWords(a), meaningfulWords(b))) > 0
    /\ jaccardSimilarityOf(meaningfulWords(a), meaningfulWords(b)) <= Tenths(8)

\* C24: the order bonus that calculateSimilarity adds to the Jaccard ratio
\* is at most min(0.05 * min(|tokens1|, |tokens2|), 0.2): the score is at most
\* the ratio plus that cap plus the substring bonus
OrderBonusWithinCap ==
    (score12 # Pending /\ bonusesAdded(str1, str2))
        => score12 <= Min(Scale,
                          jaccardSimilarityOf(meaningfulWords(str1), meaningfulWords(str2))
                              + maxOrderBonus(meaningfulWords(str1), meaningfulWords(str2))
                              + (IF containsEitherWay(str1, str2) THEN Tenths(2) ELSE 0))

(***************************************************************************)
(* Judge harness: one stored question as the only candidate of each of the *)
(* scoring loops: partialMatch, textSearch on $text results, textSearch on *)
(* the results of its regex search                                         *)
(***************************************************************************)
\* what the scoring loop of a tier does with cand when it has no match yet
judgedBy(tier, query, cand) ==
    LET scan == scanCandidates(tier, query, <<cand>>, 1, Null)
    IN  [accepted |-> scan.best # Null, returned |-> scan.returned]

\* the queries a candidate is judged against
JudgeQueries == (ScoreInputs \ {""}) \cup Queries \cup {"your price plan"}

InitJudge ==
    /\ mode = "judge"
    /\ ScorerIdle
    /\ SplitterIdle
    /\ MatcherIdle
    /\ request = IdleRequest
    /\ lookup = NoLookup
    /\ extract = NoExtract
    /\ \E query \in JudgeQueries, cand \in Range(candidatesOf(Corpus)) :
          candidate = [NoCandidate EXCEPT !.query = query, !.stored = matchOf(cand, Undefined)]

Judge ==
    /\ mode = "judge"
    /\ ~candidate.judged
    /\ candidate' = [candidate EXCEPT
                         !.judged = TRUE,
                         !.partial = judgedBy("partial", candidate.query, candidate.stored),
                         !.text = judgedBy("text", candidate.query, candidate.stored),
                         !.regex = judgedBy("regex", candidate.query, candidate.stored)]
    /\ UNCHANGED <<mode, lookup, extract, request, scorerVars, splitterVars, matcherVars>>

NextJudge == Judge

SpecJudge == InitJudge /\ [][NextJudge]_vars

\* C23: the text tier does with a candidate what the partial tier does with
\* it, on the results of the text search and on those of the regex search
TextJudgesAsPartial ==
    candidate.judged
        => /\ candidate.text = candidate.partial
           /\ candidate.regex = candidate.partial

\* the two paths of the text tier taken one by one
TextPathJudgesAsPartial == candidate.judged => candidate.text = candidate.partial

RegexPathJudgesAsPartial == candidate.judged => candidate.regex = candidate.partial

(***************************************************************************)
(* Splitter harness: the splitter applied to one input                     *)
(***************************************************************************)
MaxPieces == 3

SplitPieces ==
    <<"What is it?", "How much does the plan cost", "; ", " and ", "? ", " ">>

RECURSIVE PieceStrings(_)
PieceStrings(n) ==
    IF n = 0 THEN {""}
    ELSE LET shorter == PieceStrings(n - 1)
         IN shorter \cup {s \o SplitPieces[k] : s \in shorter, k \in 1..Len(SplitPieces)}

SplitInputs == PieceStrings(MaxPieces)

InitSplit ==
    /\ mode = "split"
    /\ ScorerIdle
    /\ userInput \in SplitInputs
    /\ parsed = FALSE
    /\ questions = <<>>
    /\ MatcherIdle
    /\ request = IdleRequest
    /\ UnitIdle

Parse ==
    /\ mode = "split"
    /\ ~parsed
    /\ parsed' = TRUE
    /\ questions' = parseMultipleQuestions(userInput)
    /\ UNCHANGED <<mode, unitVars, request, scorerVars, userInput, matcherVars>>

NextSplit == Parse

SpecSplit == InitSplit /\ [][NextSplit]_vars

\* C10: an input shorter than 30 characters after trimming comes back as
\* the single-element list holding the trimmed input
ShortInputNotSplit ==
    (parsed /\ Len(trim(userInput)) < ShortInputLimit)
        => questions = <<trim(userInput)>>

\* a short input with a separator between two question-shaped parts
ShortInputWithSeparator ==
    /\ parsed
    /\ userInput = "What is it?; What is it?"
    /\ Len(questions) = 1

\* the elements of qs occur in input one after the other, from position
\* from on
RECURSIVE occurInOrder(_, _, _)
occurInOrder(qs, input, from) ==
    \/ Len(qs) = 0
    \/ \E i \in from..(Len(input) + 1) :
          /\ MatchAt(input, i, Head(qs))
          /\ occurInOrder(Tail(qs), input, i + Len(Head(qs)))

\* C30: a result of one element is the whole trimmed input; the elements of
\* a longer result occur in the input in the order of the result; the
\* result is never empty
SplitKeepsContent ==
    parsed
        => /\ Len(questions) >= 1
           /\ Len(questions) = 1 => questions = <<trim(userInput)>>
           /\ Len(questions) > 1 => occurInOrder(questions, userInput, 1)

\* C30 without its first half: the result is never empty and its elements
\* occur in the input in the order of the result
SplitInOrder ==
    parsed => Len(questions) >= 1 /\ occurInOrder(questions, userInput, 1)

(***************************************************************************)
(* TTS harness: the TTS section applied to one responseText                *)
(***************************************************************************)
\* the parts a reply is put together from: labels in either case, option
\* texts with line breaks and runs of spaces, a text that names option B
ReplyPieces ==
    <<"Response A: ", "Response B: Yes. ", "response c: ok", "We  can\r\nhelp.\n ",
      "See response b. ">>

RECURSIVE ReplyStrings(_)
ReplyStrings(n) ==
    IF n = 0 THEN {""}
    ELSE LET shorter == ReplyStrings(n - 1)
         IN shorter \cup {s \o ReplyPieces[k] : s \in shorter, k \in 1..Len(ReplyPieces)}

TtsInputs == ReplyStrings(MaxPieces)

InitTts ==
    /\ mode = "tts"
    /\ ScorerIdle
    /\ SplitterIdle
    /\ MatcherIdle
    /\ request = IdleRequest
    /\ lookup = NoLookup
    /\ candidate = NoCandidate
    /\ \E responseText \in TtsInputs :
          extract = [NoExtract EXCEPT !.responseText = responseText]

\* the TTS section of the handler on extract.responseText, up to the
\* synthesis call
ExtractForTts ==
    /\ mode = "tts"
    /\ ~extract.done
    /\ \E ttsText \in {ttsTextOf(extract.responseText)} :
          extract' = [extract EXCEPT
                         !.done = TRUE,
                         !.ttsText = ttsText,
                         !.calls = synthesisCalls(extract.responseText, ttsText)]
    /\ UNCHANGED <<mode, lookup, candidate, request, scorerVars, splitterVars, matcherVars>>

NextTts == ExtractForTts

SpecTts == InitTts /\ [][NextTts]_vars

\* the text names option B or option C
namesLaterOption(text) ==
    markerPositions(toLowerCase(text), "response b", "response c") # {}

\* the whitespace-normalized text between the first "Response A:" of the
\* reply and the next "Response B:" or "Response C:"
betweenMarkers(responseText) ==
    LET lower == toLowerCase(responseText)
    IN extractedText(responseText, lower, indexOf(lower, "response a:"))

hasMarkerA(responseText) == indexOf(toLowerCase(responseText), "response a:") # 0

\* the text up to its first "response b" or "response c", trimmed
beforeReference(text) ==
    LET lowerText == toLowerCase(text)
        bPos == indexOf(lowerText, "response b")
        cPos == indexOf(lowerText, "response c")
        cutPos == Min(IF bPos # 0 THEN bPos ELSE Len(text) + 1,
                      IF cPos # 0 THEN cPos ELSE Len(text) + 1)
    IN trim(SubSeq(text, 1, cutPos - 1))

\* C27 as stated: the text for synthesis names neither option B nor option
\* C, it is the whitespace-normalized text between the first "Response A:"
\* and the next label when the reply has a "Response A:", and no synthesis
\* call is made for an empty text
TtsTextIsOptionA ==
    extract.done
        => /\ ~namesLaterOption(extract.ttsText)
           /\ hasMarkerA(extract.responseText)
                 => extract.ttsText = betweenMarkers(extract.responseText)
           /\ extract.ttsText = "" => extract.calls = 0

\* C27: the text for synthesis names neither option B nor option C; when the
\* reply has a "Response A:" it is the whitespace-normalized text between
\* that label and the next "Response B:" or "Response C:", cut before the
\* first "response b" or "response c" it holds; a synthesis call is made
\* exactly when the text is not empty
TtsTextIsOptionAUpToReference ==
    extract.done
        => /\ ~namesLaterOption(extract.ttsText)
           /\ hasMarkerA(extract.responseText)
                 => extract.ttsText = beforeReference(betweenMarkers(extract.responseText))
           /\ extract.calls = IF extract.ttsText = "" THEN 0 ELSE 1

\* option A of a reply names option B, and the text before that is sent to
\* synthesis
TtsTextCutAtReference ==
    /\ extract.done
    /\ hasMarkerA(extract.responseText)
    /\ namesLaterOption(betweenMarkers(extract.responseText))
    /\ extract.ttsText # ""
    /\ extract.calls = 1

\* a reply whose option A is empty: no synthesis call
TtsSkippedOnEmptyExtract ==
    /\ extract.done
    /\ hasMarkerA(extract.responseText)
    /\ extract.ttsText = ""
    /\ extract.calls = 0
====
